---------------------------- MODULE Spec2Model ----------------------------
(***************************************************************************)
(* Ingestion pipeline of ukr-map-backend (WikipediaService, latest         *)
(* revision in src/src/api/services/wikipedia.service.ts, lines 1581-3062) *)
(* as a state machine.                                                     *)
(*                                                                         *)
(* The module holds several specifications over one set of variables:      *)
(*   SpecHttp     the two resilient HTTP helpers, fetchFromWiki and        *)
(*                fetchSparqlWithRetry, one request / one backoff per step  *)
(*   SpecDetails  fetchSparqlDetails, one chunk per step                   *)
(*   Spec         a full sync run (runFullSyncPipeline), one pipeline      *)
(*                stage per step                                           *)
(* A specification leaves the variables of the other parts at their idle   *)
(* values.                                                                 *)
(***************************************************************************)
EXTENDS Integers, Sequences, FiniteSets, TLC

NULL == "null"

RECURSIVE Pow2(_)
\* Math.pow(2, n) for n >= 0
Pow2(n) == IF n <= 0 THEN 1 ELSE 2 * Pow2(n - 1)

Range(s) == {s[i] : i \in DOMAIN s}

\* Array.prototype.slice(from, to) with 0-based, end-exclusive indices
Slice(s, from, to) ==
    LET hi == IF to < Len(s) THEN to ELSE Len(s)
    IN  IF from >= hi THEN <<>> ELSE [i \in 1..(hi - from) |-> s[from + i]]

(***************************************************************************)
(* Strings.  A string is a sequence of one-character strings, so that the  *)
(* text conversions of the code are computed character by character.       *)
(* Cyrillic literals of the source are written in Latin transliteration.   *)
(***************************************************************************)

UpperCase == <<"A","B","C","D","E","F","G","H","I","J","K","L","M",
               "N","O","P","Q","R","S","T","U","V","W","X","Y","Z">>
LowerCase == <<"a","b","c","d","e","f","g","h","i","j","k","l","m",
               "n","o","p","q","r","s","t","u","v","w","x","y","z">>
Digits == {"0","1","2","3","4","5","6","7","8","9"}

LowerChar(c) ==
    IF \E i \in DOMAIN UpperCase : UpperCase[i] = c
        THEN LowerCase[CHOOSE i \in DOMAIN UpperCase : UpperCase[i] = c]
        ELSE c

\* String.prototype.toLowerCase
ToLowerCase(s) == [i \in DOMAIN s |-> LowerChar(s[i])]

\* \s of a regular expression, and the white space trim() removes: blank,
\* tab and line feed among the characters of the model
IsSpace(c) == c \in {" ", "\t", "\n"}

\* The characters `.` of a regular expression does not match
IsLineTerminator(c) == c = "\n"

RECURSIVE TrimStart(_)
TrimStart(s) ==
    IF s # <<>> /\ IsSpace(Head(s)) THEN TrimStart(Tail(s)) ELSE s

RECURSIVE TrimEnd(_)
TrimEnd(s) ==
    IF s # <<>> /\ IsSpace(s[Len(s)]) THEN TrimEnd(SubSeq(s, 1, Len(s) - 1)) ELSE s

\* String.prototype.trim
Trim(s) == TrimEnd(TrimStart(s))

\* s.startsWith(p)
StartsWith(s, p) == Len(p) <= Len(s) /\ SubSeq(s, 1, Len(p)) = p

\* s.includes(p)
Includes(s, p) ==
    \E i \in 0..(Len(s) - Len(p)) : SubSeq(s, i + 1, i + Len(p)) = p

\* s.replace(/\(.*?\)/g, ''): every "(" up to the nearest ")" after it on
\* the same line
RECURSIVE StripParensLazy(_)
StripParensLazy(s) ==
    LET closes(k) == /\ s[k] = ")"
                     /\ \A m \in 2..(k - 1) : s[m] # ")" /\ ~IsLineTerminator(s[m])
    IN  IF s = <<>> THEN <<>>
        ELSE IF Head(s) = "(" /\ \E j \in 2..Len(s) : closes(j)
            THEN StripParensLazy(SubSeq(s, (CHOOSE k \in 2..Len(s) : closes(k)) + 1, Len(s)))
            ELSE <<Head(s)>> \o StripParensLazy(Tail(s))

\* s.replace(/\(.*\)/, ''): the first "(" up to the last ")" after it on
\* the same line, once
StripParensGreedyOnce(s) ==
    LET closes(i, j) == /\ s[j] = ")"
                        /\ \A m \in (i + 1)..(j - 1) : ~IsLineTerminator(s[m])
        opens(i) == s[i] = "(" /\ \E j \in (i + 1)..Len(s) : closes(i, j)
    IN  IF \E i \in DOMAIN s : opens(i)
            THEN LET i == CHOOSE k \in DOMAIN s :
                            opens(k) /\ \A m \in 1..(k - 1) : ~opens(m)
                     j == CHOOSE k \in (i + 1)..Len(s) :
                            closes(i, k) /\ \A m \in (k + 1)..Len(s) : ~closes(i, m)
                 IN  SubSeq(s, 1, i - 1) \o SubSeq(s, j + 1, Len(s))
            ELSE s

\* s.replace(/\s+/g, ' ')
RECURSIVE CollapseSpaces(_)
CollapseSpaces(s) ==
    IF s = <<>> THEN <<>>
    ELSE IF IsSpace(Head(s))
        THEN <<" ">> \o CollapseSpaces(TrimStart(s))
        ELSE <<Head(s)>> \o CollapseSpaces(Tail(s))

\* s.replace(/,\s*$/, ''): a comma followed only by white space up to the end
StripTrailingComma(s) ==
    IF \E i \in DOMAIN s : s[i] = "," /\ \A m \in (i + 1)..Len(s) : IsSpace(s[m])
        THEN LET i == CHOOSE k \in DOMAIN s :
                        /\ s[k] = "," /\ \A m \in (k + 1)..Len(s) : IsSpace(s[m])
                        /\ \A n \in 1..(k - 1) :
                              ~(s[n] = "," /\ \A m \in (n + 1)..Len(s) : IsSpace(s[m]))
             IN  SubSeq(s, 1, i - 1)
        ELSE s

\* The historical-polity qualifiers of normalizeBirthPlace:
\* Ukrainska RSR | SRSR | URSR | Rosiiska imperiia
POLITY_QUALIFIERS ==
    << <<"U","k","r","a","i","n","s","k","a"," ","R","S","R">>,
       <<"S","R","S","R">>,
       <<"U","R","S","R">>,
       <<"R","o","s","i","i","s","k","a"," ","i","m","p","e","r","i","i","a">> >>

\* Length of the match of (Ukrainska RSR|SRSR|URSR|Rosiiska imperiia), flag i,
\* at position p of s (first alternative that matches), 0 when none does.
QualifierAt(s, p) ==
    LET fits(q) == /\ p + Len(q) - 1 <= Len(s)
                   /\ ToLowerCase(SubSeq(s, p, p + Len(q) - 1)) = ToLowerCase(q)
        hits == {k \in DOMAIN POLITY_QUALIFIERS : fits(POLITY_QUALIFIERS[k])}
    IN  IF hits = {} THEN 0
        ELSE Len(POLITY_QUALIFIERS[CHOOSE k \in hits : \A m \in hits : k <= m])

\* Index of the first non-space character at or after p (Len(s) + 1 if none)
RECURSIVE SkipSpaces(_, _)
SkipSpaces(s, p) ==
    IF p <= Len(s) /\ IsSpace(s[p]) THEN SkipSpaces(s, p + 1) ELSE p

\* End (exclusive) of the match of /,?\s*(qualifier)/i that starts at p,
\* 0 when there is none.  The qualifiers start with a letter, so after the
\* optional comma the run of white space is taken whole.
QualifierMatchEnd(s, p) ==
    LET afterComma == IF p <= Len(s) /\ s[p] = "," THEN p + 1 ELSE p
        q == SkipSpaces(s, afterComma)
        n == QualifierAt(s, q)
    IN  IF n > 0 THEN q + n ELSE 0

\* s.replace(/,?\s*(Ukrainska RSR|SRSR|URSR|Rosiiska imperiia)/gi, '')
RECURSIVE StripQualifiersFrom(_, _)
StripQualifiersFrom(s, p) ==
    IF p > Len(s) THEN <<>>
    ELSE LET e == QualifierMatchEnd(s, p)
         IN  IF e > 0 THEN StripQualifiersFrom(s, e)
             ELSE <<s[p]>> \o StripQualifiersFrom(s, p + 1)

StripQualifiers(s) == StripQualifiersFrom(s, 1)

\* F applied to the value of v
Then(v, F(_)) == CHOOSE r \in {F(x) : x \in {v}} : TRUE

\* EntityResolutionService.normalizeBirthPlace: `if (!place) return place`,
\* then the four replacements and trim(), each applied to the result of the
\* one before
NormalizeBirthPlace(place) ==
    IF place = <<NULL>> \/ place = <<>> THEN place
    ELSE Then(StripParensLazy(place), LAMBDA a :
         Then(StripQualifiers(a), LAMBDA b :
         Then(StripTrailingComma(b), LAMBDA c :
         Then(CollapseSpaces(c), LAMBDA d : Trim(d)))))

\* s.replace(/['\u02BC\u0060]/g, "'"); in the model the modifier letter
\* apostrophe U+02BC is written "~" and the grave accent U+0060 "^"
UnifyApostrophes(s) ==
    [i \in DOMAIN s |-> IF s[i] \in {"'", "~", "^"} THEN "'" ELSE s[i]]

\* EntityResolutionService.normalizeName
NormalizeName(name) ==
    Then(ToLowerCase(name), LAMBDA a :
    Then(StripParensLazy(a), LAMBDA b :
    Then(UnifyApostrophes(b), LAMBDA c :
    Then(CollapseSpaces(c), LAMBDA d : Trim(d)))))

\* \p{L} and \p{N} among the characters of the model
IsLetterOrNumber(c) ==
    \/ c \in Digits
    \/ \E i \in DOMAIN UpperCase : c = UpperCase[i] \/ c = LowerCase[i]

\* s.replace(/[^\p{L}\p{N}\s-]/gu, '')
KeepSlugCharacters(s) ==
    SelectSeq(s, LAMBDA c : IsLetterOrNumber(c) \/ IsSpace(c) \/ c = "-")

\* s.replace(/\s+/g, '-')
RECURSIVE HyphenateSpaces(_)
HyphenateSpaces(s) ==
    IF s = <<>> THEN <<>>
    ELSE IF IsSpace(Head(s))
        THEN <<"-">> \o HyphenateSpaces(TrimStart(s))
        ELSE <<Head(s)>> \o HyphenateSpaces(Tail(s))

\* s.replace(/-+/g, '-')
RECURSIVE CollapseHyphens(_)
CollapseHyphens(s) ==
    IF s = <<>> THEN <<>>
    ELSE IF Head(s) = "-" /\ Len(s) > 1 /\ s[2] = "-"
        THEN CollapseHyphens(Tail(s))
        ELSE <<Head(s)>> \o CollapseHyphens(Tail(s))

\* EntityResolutionService.toSlug; Person.generateSlug computes the same
\* chain on this.name
ToSlug(name) ==
    Then(ToLowerCase(name), LAMBDA a :
    Then(KeepSlugCharacters(a), LAMBDA b :
    Then(HyphenateSpaces(b), LAMBDA c :
    Then(CollapseHyphens(c), LAMBDA d : Trim(d)))))

\* Mutant of AllDigits: the pattern without its anchors, /\d+/.
SomeDigit(s) == \E i \in DOMAIN s : s[i] \in Digits

\* /^\d+$/.test(s)
AllDigits(s) == s # <<>> /\ \A i \in DOMAIN s : s[i] \in Digits

VARIABLES
    \* ---- fetchFromWiki / fetchSparqlWithRetry (one call in progress)
    hFn,        \* "wiki" | "sparql" | "idle": the helper being executed
    hRetries,   \* the attempt ceiling (retries / SPARQL_MAX_RETRIES)
    hAttempt,   \* the loop variable `attempt`
    hPc,        \* "request" | "sleep" | "done"
    hResps,     \* the responses received so far, in order
    hDelays,    \* the delays slept so far, in order (ms)
    hResult,    \* "none" | "value" | "error" | "null"
    \* ---- fetchSparqlDetails (one call in progress)
    dIds,       \* the argument wdIds
    dI,         \* the loop variable `i`
    dPc,        \* "idle" | "loop" | "done"
    dMap,       \* resultMap
    dChunks,    \* history: the chunks queried so far, each with its outcome
    \* ---- the person table, the service instance and one full sync run
    db,           \* the person table: internal id -> row
    importLog,    \* the import_log table, in insertion order
    geocodeCache, \* this.geocodeCache: cache key -> coordinates or NULL
    world,        \* what the knowledge graph holds for each page's item
    pc,           \* where runFullSyncPipeline stands
    forceRefresh, \* the argument of runFullSyncPipeline
    catIdx,       \* catIdx of the category loop, 1-based
    frame,        \* the locals of processCategory / batchSavePersons
    calls,        \* history: the external calls made, for the run and
                  \* for the category in progress
    \* ---- EntityResolutionService (one helper applied to one argument)
    erFn,       \* "idle" or the name of the method under call
    erArg,      \* the argument of the first call
    erOut,      \* history: the values returned so far, in order
    \* ---- the invocations of runFullSyncPipeline and the stop control
    syncRuns,      \* one record per invocation, in the order of the triggers
    stopRequested, \* a stop was requested (stop-sync)
    \* ---- discoverCategories (one call in progress)
    discovery,     \* the locals of the call and the requests made, or <<>>
    \* ---- SearchService.search (one call in progress)
    searchCall,    \* the arguments, the query results and the value
                   \* returned, or <<>>
    \* ---- ProposedEditsService
    proposedEdits, \* the rows of the proposed-edit table
    clearResult    \* what the calls of clearImportedPersons returned

httpVars == <<hFn, hRetries, hAttempt, hPc, hResps, hDelays, hResult>>
detailsVars == <<dIds, dI, dPc, dMap, dChunks>>
pipeVars == <<db, importLog, geocodeCache, world, pc, forceRefresh, catIdx, frame, calls>>
erVars == <<erFn, erArg, erOut>>
runVars == <<syncRuns, stopRequested>>
callVars == <<discovery, searchCall>>
editVars == <<proposedEdits, clearResult>>

vars == <<hFn, hRetries, hAttempt, hPc, hResps, hDelays, hResult,
          dIds, dI, dPc, dMap, dChunks,
          db, importLog, geocodeCache, world, pc, forceRefresh, catIdx, frame, calls,
          erFn, erArg, erOut, syncRuns, stopRequested,
          discovery, searchCall, proposedEdits, clearResult>>

-----------------------------------------------------------------------------
(***************************************************************************)
(* The HTTP helpers.                                                       *)
(***************************************************************************)

\* Bound: the largest `retries` argument explored for fetchFromWiki
\* (the default, and the only value the callers pass, is 3).
MaxRetries == 3

SPARQL_MAX_RETRIES == 3
WIKI_BASE_DELAY == 2000
SPARQL_BASE_DELAY == 5000

\* What one fetch() can come to.  kind = "transport": fetch() (or the read of
\* the body) rejects: a timeout of AbortSignal.timeout, a connection error.
\* kind = "http": a response with a status; for a 2xx one, whether the
\* content-type is application/json and whether the body is JSON-shaped.
Statuses == {200, 400, 404, 429, 500, 503}

Responses ==
    [kind : {"http"}, status : Statuses \ {200}, ctype : {"other"}, body : {"other"}]
    \cup [kind : {"http"}, status : {200}, ctype : {"json", "other"}, body : {"json", "other"}]
    \cup [kind : {"transport"}, status : {0}, ctype : {"other"}, body : {"other"}]

\* res.ok
Ok(r) == r.kind = "http" /\ r.status >= 200 /\ r.status <= 299

\* Mutant of RetryableStatus: every error status is retried.
RetryableStatusAnyError(r) == r.kind = "http" /\ r.status >= 400

\* res.status === 429 || res.status >= 500
RetryableStatus(r) == r.kind = "http" /\ (r.status = 429 \/ r.status >= 500)

PipeIdle ==
    /\ db = <<>>
    /\ importLog = <<>>
    /\ geocodeCache = <<>>
    /\ world = <<>>
    /\ pc = "off"
    /\ forceRefresh = FALSE
    /\ catIdx = 0
    /\ frame = <<>>
    /\ calls = <<>>

DetailsIdle ==
    /\ dIds = <<>>
    /\ dI = 0
    /\ dPc = "idle"
    /\ dMap = <<>>
    /\ dChunks = <<>>

ErIdle ==
    /\ erFn = "idle"
    /\ erArg = <<>>
    /\ erOut = <<>>

RunsIdle ==
    /\ syncRuns = <<>>
    /\ stopRequested = FALSE

CallsIdle ==
    /\ discovery = <<>>
    /\ searchCall = <<>>

NoEdits == proposedEdits = <<>> /\ clearResult = <<>>

HttpIdle ==
    /\ hFn = "idle"
    /\ hRetries = 0
    /\ hAttempt = 0
    /\ hPc = "done"
    /\ hResps = <<>>
    /\ hDelays = <<>>
    /\ hResult = "none"

\* Mutant of WikiDelay: the delay does not grow.
WikiDelayFixed(attempt) == WIKI_BASE_DELAY

\* const delay = 2000 * Math.pow(2, attempt - 1)
WikiDelay(attempt) == WIKI_BASE_DELAY * Pow2(attempt - 1)

\* const delay = 5000 * Math.pow(2, attempt - 1)
SparqlDelay(attempt) == SPARQL_BASE_DELAY * Pow2(attempt - 1)

\* The outcome of a 2xx response in fetchFromWiki: res.json() when the
\* content-type is JSON, else JSON.parse(text) when the text starts with "{",
\* else throw.  A JSON content-type over a body that does not parse rejects.
WikiOkResult(r) == IF r.body = "json" THEN "value" ELSE "error"

\* fetchFromWiki: one pass of the for loop, up to its await of sleep().
\* fetch() is not inside a try block: a rejection leaves the function.
WikiRequest ==
    /\ hFn = "wiki" /\ hPc = "request" /\ hAttempt <= hRetries
    /\ \E r \in Responses :
        /\ hResps' = Append(hResps, r)
        /\ IF r.kind = "transport"
             THEN /\ hResult' = "error" /\ hPc' = "done"
                  /\ UNCHANGED <<hDelays, hAttempt>>
           ELSE IF Ok(r)
             THEN /\ hResult' = WikiOkResult(r) /\ hPc' = "done"
                  /\ UNCHANGED <<hDelays, hAttempt>>
           ELSE IF hAttempt < hRetries /\ RetryableStatus(r)
             THEN /\ hDelays' = Append(hDelays, WikiDelay(hAttempt))
                  /\ hPc' = "sleep"
                  /\ UNCHANGED <<hResult, hAttempt>>
           ELSE /\ hResult' = "error" /\ hPc' = "done"
                /\ UNCHANGED <<hDelays, hAttempt>>
    /\ UNCHANGED <<hFn, hRetries>>
    /\ UNCHANGED <<detailsVars, pipeVars, erVars, runVars, callVars, editVars>>

\* fetchFromWiki: sleep(delay) resolves; `continue` -> attempt++
WikiBackoff ==
    /\ hFn = "wiki" /\ hPc = "sleep"
    /\ hAttempt' = hAttempt + 1
    /\ hPc' = "request"
    /\ UNCHANGED <<hFn, hRetries, hResps, hDelays, hResult>>
    /\ UNCHANGED <<detailsVars, pipeVars, erVars, runVars, callVars, editVars>>

\* fetchSparqlWithRetry: one pass of the for loop, up to its await of sleep().
\* The whole pass is inside try/catch: a rejection is retried while
\* attempt < SPARQL_MAX_RETRIES, and ends the call with null otherwise.
\* response.json() of a 2xx response whose body does not parse rejects too.
SparqlRequest ==
    /\ hFn = "sparql" /\ hPc = "request" /\ hAttempt <= hRetries
    /\ \E r \in Responses :
        /\ hResps' = Append(hResps, r)
        /\ IF Ok(r) /\ r.body = "json"
             THEN /\ hResult' = "value" /\ hPc' = "done"
                  /\ UNCHANGED <<hDelays, hAttempt>>
           ELSE IF r.kind = "http" /\ ~Ok(r)
             THEN IF hAttempt < hRetries /\ RetryableStatus(r)
                    THEN /\ hDelays' = Append(hDelays, SparqlDelay(hAttempt))
                         /\ hPc' = "sleep"
                         /\ UNCHANGED <<hResult, hAttempt>>
                    ELSE /\ hResult' = "null" /\ hPc' = "done"
                         /\ UNCHANGED <<hDelays, hAttempt>>
           ELSE \* catch (error)
                IF hAttempt < hRetries
                    THEN /\ hDelays' = Append(hDelays, SparqlDelay(hAttempt))
                         /\ hPc' = "sleep"
                         /\ UNCHANGED <<hResult, hAttempt>>
                    ELSE /\ hResult' = "null" /\ hPc' = "done"
                         /\ UNCHANGED <<hDelays, hAttempt>>
    /\ UNCHANGED <<hFn, hRetries>>
    /\ UNCHANGED <<detailsVars, pipeVars, erVars, runVars, callVars, editVars>>

\* fetchSparqlWithRetry: sleep(delay) resolves; next pass of the loop
SparqlBackoff ==
    /\ hFn = "sparql" /\ hPc = "sleep"
    /\ hAttempt' = hAttempt + 1
    /\ hPc' = "request"
    /\ UNCHANGED <<hFn, hRetries, hResps, hDelays, hResult>>
    /\ UNCHANGED <<detailsVars, pipeVars, erVars, runVars, callVars, editVars>>

InitHttp ==
    /\ hFn \in {"wiki", "sparql"}
    /\ hRetries \in (IF hFn = "wiki" THEN 1..MaxRetries ELSE {SPARQL_MAX_RETRIES})
    /\ hAttempt = 1
    /\ hPc = "request"
    /\ hResps = <<>>
    /\ hDelays = <<>>
    /\ hResult = "none"
    /\ DetailsIdle
    /\ PipeIdle
    /\ ErIdle
    /\ RunsIdle
    /\ CallsIdle
    /\ NoEdits

NextHttp == WikiRequest \/ WikiBackoff \/ SparqlRequest \/ SparqlBackoff

SpecHttp == InitHttp /\ [][NextHttp]_vars

-----------------------------------------------------------------------------
(***************************************************************************)
(* The full sync run: values, the stored records and the outside world.    *)
(*                                                                         *)
(* Representation of JavaScript values:                                    *)
(*   text that is only copied (summary, image URL, dates)  a TLA+ string,  *)
(*         NULL for null, UNDEF for undefined                              *)
(*   text that is converted (titles, places)   a sequence of characters,   *)
(*         NULLSTR for null/undefined, <<>> for the empty string           *)
(*   a nullable number (lat, lng)   <<>> for null, <<n>> for the number n  *)
(*   an object with optional keys (meta_data)   a function whose domain    *)
(*         is the set of keys that are present                             *)
(***************************************************************************)

UNDEF == "undefined"
NULLSTR == <<NULL>>
NONUM == <<>>
Num(n) == <<n>>

\* JavaScript truthiness of each representation
TruthyText(x) == x # NULL /\ x # UNDEF /\ x # ""
TruthyStr(s) == s # NULLSTR /\ s # <<>>
TruthyNum(x) == x # NONUM /\ x # Num(0)

\* a || b on copied text
OrText(a, b) == IF TruthyText(a) THEN a ELSE b

\* The pages of the encyclopedia the model knows: 1..3 are articles about
\* people, 4 is a list article, 5 is an article whose title holds an ignored
\* keyword.
PersonPages == {1, 2, 3}

Title(p) ==
    CASE p = 1 -> <<"T","a","r","a","s">>
      [] p = 2 -> <<"L","e","s","i","a">>
      [] p = 3 -> <<"I","v","a","n">>
      [] p = 4 -> <<"S","p","y","s","o","k"," ","p","o","e","t","i","v">>
      [] p = 5 -> <<"M","e","d","v","e","d","c","h","u","k">>
      [] OTHER -> <<"P","e","r","s","o","n">>

\* The categories discoverCategories returns, and the pages the category
\* listing (list=categorymembers) holds for each: the first category lists
\* two people and the two pages the title filters remove, the second lists
\* the three people.
Categories == <<"A", "B">>

CategoryPages(c) ==
    CASE c = "A" -> <<1, 2, 4, 5>>
      [] c = "B" -> <<1, 2, 3>>

\* Monthly page views summed over the fixed window, per page.  The values
\* are 10^k - 1, so that log10(views + 1) is a whole number.
PageViews(p) ==
    CASE p = 1 -> 999
      [] p = 2 -> 99
      [] p = 3 -> 9
      [] OTHER -> 0

\* Occupation labels of the knowledge graph and the tags of categoryMap
POET == <<"p","o","e","t">>
PYSMENNYK == <<"p","y","s","m","e","n","n","y","k">>
KOMPOZYTOR == <<"k","o","m","p","o","z","y","t","o","r">>
PEDAHOH == <<"p","e","d","a","h","o","h">>
CONSTRUCTOR == <<"c","o","n","s","t","r","u","c","t","o","r">>
WRITER == <<"w","r","i","t","e","r">>
COMPOSER == <<"c","o","m","p","o","s","e","r">>
\* Object.prototype.constructor, a value that is not a string
OBJECT_FUNCTION == <<"function Object">>

\* Number.prototype.toString for the years of the model
YearToString(n) ==
    CASE n = 1861 -> "1861"
      [] n = 972 -> "972"
      [] OTHER -> "0"
CURATED == <<"c","u","r","a","t","e","d">>

KYIV == <<"K","y","i","v">>
KYIV_VARIANT == <<" ","k","y","i","v">>
QUITO == <<"Q","u","i","t","o">>
UNKNOWN_PLACE == <<"N","e","v","i","d","o","m","o">>

\* The binding the knowledge graph returns for the item Q<id> (P569, P19
\* label, P106 labels, P570).  A timestamp is the pair <<date, time>> that
\* value.split('T') yields; the "|"-joined occupation labels are the
\* sequence of the labels.  Items 1..3 belong to the person pages; of the
\* other items the odd ones have a birth date and place, the even ones none.
GraphRow(id) ==
    CASE id = 1 -> [person |-> id, birthdate |-> <<"1814-03-09", "00:00:00Z">>,
                    birthplaceLabel |-> KYIV,
                    occupations |-> <<POET, PYSMENNYK>>,
                    deathdate |-> <<"1861-03-10", "00:00:00Z">>]
      [] id = 2 -> [person |-> id, birthdate |-> <<"1871-02-25", "00:00:00Z">>,
                    birthplaceLabel |-> KYIV_VARIANT,
                    occupations |-> <<POET>>, deathdate |-> NULL]
      [] id = 3 -> [person |-> id, birthdate |-> <<"1856-08-27", "00:00:00Z">>,
                    birthplaceLabel |-> NULLSTR,
                    occupations |-> <<>>, deathdate |-> NULL]
      [] OTHER  -> [person |-> id,
                    birthdate |-> IF id % 2 = 1 THEN <<"1900-01-01", "00:00:00Z">> ELSE NULL,
                    birthplaceLabel |-> IF id % 2 = 1 THEN KYIV ELSE NULLSTR,
                    occupations |-> <<>>, deathdate |-> NULL]

\* What the text API (extract, original image) and the info box hold.
WikiText(p) == [summary |-> "summary-wiki", image |-> "image-wiki"]

InfoboxData(p) ==
    CASE p = 3 -> [birthDate |-> "27 serpnia 1856", birthPlace |-> QUITO]
      [] OTHER -> [birthDate |-> NULL, birthPlace |-> NULLSTR]

\* A value of type {lat, lng} | null: <<>> for null, <<[lat, lng]>> for
\* an object
NOTFOUND == <<>>
Found(lat, lng) == <<[lat |-> lat, lng |-> lng]>>

\* The geocoder's answer for a cleaned address: Kyiv, a place on the
\* equator (latitude 0), or nothing.
GeocoderAnswer(address) ==
    CASE ToLowerCase(address) = ToLowerCase(KYIV) -> Found(50, 30)
      [] ToLowerCase(address) = ToLowerCase(QUITO) -> Found(0, 78)
      [] OTHER -> NOTFOUND

\* A row of the person table (the columns the pipeline reads or writes;
\* category, birthYear and the timestamps are not modelled).
\* birthLocation is the PostGIS point, <<lng, lat>>, or <<>>.
PersonRow(id, page, manual, name, slug, lat, lng, geom, place, date, views, rating, summary, image, meta) ==
    [id |-> id, wikiPageId |-> page, isManual |-> manual, name |-> name, slug |-> slug,
     lat |-> lat, lng |-> lng, birthLocation |-> geom,
     birthPlace |-> place, birthDate |-> date, views |-> views, rating |-> rating,
     summary |-> summary, imageUrl |-> image, meta_data |-> meta]

\* A function from a set of keys to values, written as a set of pairs
MapOf(pairs) ==
    [k \in {pr[1] : pr \in pairs} |-> (CHOOSE pr \in pairs : pr[1] = k)[2]]

EmptyMap == MapOf({})

\* The states a page can be stored in when a run starts:
\*   "full"    imported earlier, complete, with coordinates
\*   "manual"  curated by hand (isManual), with the curator's own values
\*   "bare"    imported earlier without coordinates, summary or metadata
\*   "zero"    imported earlier, complete, born on the equator (lat = 0)
Profiles == {"full", "manual", "bare", "zero"}

StoredRow(id, p, profile) ==
    CASE profile = "full" ->
            PersonRow(id, p, FALSE, Title(p), ToSlug(Title(p)), Num(50), Num(30), <<30, 50>>, KYIV,
                      "1800-01-01", 99, 400, "summary-db", "image-db",
                      MapOf({<<"occupation", <<WRITER>> >>,
                             <<"deathPlace", "deathplace-db">>,
                             <<"deathYear", Num(1861)>>}))
      [] profile = "manual" ->
            PersonRow(id, p, TRUE, <<"C","u","r","a","t","e","d">>,
                      <<"c","u","r","a","t","e","d">>, Num(49), Num(24),
                      <<24, 49>>, <<"L","v","i","v">>,
                      "1800-01-01", 5, 700, "summary-curated", "image-curated",
                      MapOf({<<"occupation", <<CURATED>> >>}))
      [] profile = "bare" ->
            PersonRow(id, p, FALSE, Title(p), ToSlug(Title(p)), NONUM, NONUM, <<>>, NULLSTR,
                      NULL, 0, 0, NULL, NULL, EmptyMap)
      [] profile = "zero" ->
            PersonRow(id, p, FALSE, Title(p), ToSlug(Title(p)), Num(0), Num(78), <<>>, QUITO,
                      "1800-01-01", 99, 400, "summary-db", "image-db",
                      MapOf({<<"occupation", <<WRITER>> >>}))


-----------------------------------------------------------------------------
(***************************************************************************)
(* fetchSparqlDetails: the knowledge-graph detail query, chunk by chunk.   *)
(***************************************************************************)

SPARQL_BATCH_SIZE == 40

\* Bound: the longest identifier list explored (three chunks need 81).
MaxWdIds == 81

\* What one `await this.fetchSparqlWithRetry(sparqlQuery)` plus the reading
\* of its result can come to, for a chunk:
\*   "null"   fetchSparqlWithRetry returned null (retries exhausted, 4xx)
\*   "throw"  the parsed JSON has no results.bindings: the for-of statement
\*            throws before any row is read
\*   "data"   bindings for every identifier of the chunk, or for every one
\*            but the first (an item the graph does not hold)
ChunkResponses(batch) ==
    {[kind |-> "null", rows |-> <<>>], [kind |-> "throw", rows |-> <<>>]}
    \cup {[kind |-> "data", rows |-> [k \in 1..Len(b) |-> GraphRow(b[k])]]
            : b \in {batch, Tail(batch)}}

\* One entry of resultMap, from one binding
DetailOfRow(row) ==
    [birthDate |-> IF row.birthdate = NULL THEN NULL ELSE row.birthdate[1],
     birthPlace |-> IF TruthyStr(row.birthplaceLabel) THEN row.birthplaceLabel ELSE NULLSTR,
     occupations |-> row.occupations,
     deathDate |-> IF row.deathdate = NULL THEN NULL ELSE row.deathdate[1]]

\* resultMap after `for (const result of data.results.bindings)
\*                    resultMap[wikidataId] = {...}`
MergeRows(map, rows) ==
    LET ids == {rows[k].person : k \in DOMAIN rows}
        lastRow(id) == rows[CHOOSE k \in DOMAIN rows :
                              /\ rows[k].person = id
                              /\ \A j \in DOMAIN rows : rows[j].person = id => j <= k]
    IN  [id \in (DOMAIN map) \cup ids |->
            IF id \in ids THEN DetailOfRow(lastRow(id)) ELSE map[id]]

\* Mutant of DetailsNextIndex: a failed chunk ends the loop.
DetailsNextIndexAbort(i, kind, n) ==
    IF kind \in {"null", "throw"} THEN n ELSE i + SPARQL_BATCH_SIZE

\* The loop header `i += this.SPARQL_BATCH_SIZE`: the catch block and the
\* else branch neither break nor rethrow, so the index advances whatever the
\* chunk came to.
DetailsNextIndex(i, kind, n) == i + SPARQL_BATCH_SIZE

\* wdIds.slice(i, i + this.SPARQL_BATCH_SIZE)
DetailsBatch(ids, i) == Slice(ids, i, i + SPARQL_BATCH_SIZE)

\* One pass of the for loop of fetchSparqlDetails (query, merge, sleep).
DetailsChunk ==
    /\ dPc = "loop" /\ dI < Len(dIds)
    /\ LET batch == DetailsBatch(dIds, dI)
       IN  \E resp \in ChunkResponses(batch) :
            /\ dMap' = IF resp.kind = "data" THEN MergeRows(dMap, resp.rows) ELSE dMap
            /\ dChunks' = Append(dChunks,
                                 [ids |-> batch, kind |-> resp.kind,
                                  returned |-> {resp.rows[k].person : k \in DOMAIN resp.rows}])
            /\ dI' = DetailsNextIndex(dI, resp.kind, Len(dIds))
            /\ dPc' = IF dI' < Len(dIds) THEN "loop" ELSE "done"
    /\ UNCHANGED dIds
    /\ UNCHANGED <<httpVars, pipeVars, erVars, runVars, callVars, editVars>>

\* fetchSparqlDetails(wdIds) is entered: `if (wdIds.length === 0) return {}`
InitDetails ==
    /\ \E n \in 0..MaxWdIds : dIds = [k \in 1..n |-> k]
    /\ dI = 0
    /\ dPc = IF dIds = <<>> THEN "done" ELSE "loop"
    /\ dMap = <<>>
    /\ dChunks = <<>>
    /\ HttpIdle
    /\ PipeIdle
    /\ ErIdle
    /\ RunsIdle
    /\ CallsIdle
    /\ NoEdits

NextDetails == DetailsChunk

SpecDetails == InitDetails /\ [][NextDetails]_vars

-----------------------------------------------------------------------------
(***************************************************************************)
(* Claims about the HTTP helpers (checked under SpecHttp) and about        *)
(* fetchSparqlDetails (checked under SpecDetails).                         *)
(***************************************************************************)

Last(s) == s[Len(s)]

\* 4xx other than 429
PermanentStatus(r) ==
    r.kind = "http" /\ r.status >= 400 /\ r.status <= 499 /\ r.status # 429

\* C5: fetchFromWiki retry policy.  Every request but the last one returned
\* 429 or >= 500 and was followed by a backoff of 2000 * 2^(k-1) ms (k the
\* number of the request); a retryable status before the ceiling never ends
\* the call; the call makes at most `retries` requests; it returns the parsed
\* body when its last request succeeded, and ends with an error, not a value,
\* when all `retries` requests failed.
C5_WikiRetryPolicy ==
    hFn = "wiki" =>
        /\ Len(hResps) <= hRetries
        /\ \A k \in 1..Len(hDelays) :
              /\ k <= Len(hResps)
              /\ RetryableStatus(hResps[k])
              /\ hDelays[k] = 2000 * Pow2(k - 1)
        /\ \A k \in 1..Len(hResps) :
              (RetryableStatus(hResps[k]) /\ k < hRetries) => Len(hDelays) >= k
        /\ hPc = "done" =>
              /\ Len(hResps) >= 1
              /\ Len(hDelays) = Len(hResps) - 1
              /\ (Ok(Last(hResps)) /\ Last(hResps).body = "json") => hResult = "value"
              /\ (Len(hResps) = hRetries /\ \A k \in 1..Len(hResps) : ~Ok(hResps[k]))
                    => hResult = "error"

\* Witness of C5: two retryable failures, backoffs of 2 s and 4 s, then a
\* third request that succeeds and whose body is returned.
C5_Witness ==
    /\ hFn = "wiki" /\ hRetries = 3 /\ hPc = "done"
    /\ Len(hResps) = 3
    /\ hResps[1].status = 429 /\ hResps[2].status = 503 /\ Ok(hResps[3])
    /\ hDelays = <<2000, 4000>>
    /\ hResult = "value"

\* C6: permanent external failure.  In both helpers a response with a 4xx
\* status other than 429 is the last request of the call: the call is over
\* without a value, no backoff follows that response and no request follows
\* it (so a permanent failure of the first request ends the call after exactly
\* one request).  The same holds in fetchFromWiki for a 2xx response whose
\* body is not JSON-shaped.
C6_PermanentFailsAtOnce ==
    \A k \in 1..Len(hResps) :
        (\/ PermanentStatus(hResps[k])
         \/ (hFn = "wiki" /\ Ok(hResps[k]) /\ hResps[k].body # "json"))
        => /\ k = Len(hResps)
           /\ hPc = "done"
           /\ hResult = (IF hFn = "wiki" THEN "error" ELSE "null")
           /\ Len(hDelays) = k - 1

\* Witness of C6: fetchSparqlWithRetry gets a 404 on its first request and is
\* over with null, one request made and no delay slept.
C6_Witness ==
    /\ hFn = "sparql" /\ Len(hResps) = 1 /\ hResps[1].status = 404
    /\ hPc = "done" /\ hResult = "null" /\ hDelays = <<>>

\* C7 (the claim as stated): a request that times out or fails at transport
\* level before the attempt ceiling does not end the call: it is retried, in
\* fetchFromWiki as in fetchSparqlWithRetry.
C7_TimeoutIsRetried ==
    \A k \in 1..Len(hResps) :
        (hResps[k].kind = "transport" /\ k < hRetries)
        => ~(hPc = "done" /\ k = Len(hResps))

\* C8: fetchSparqlDetails.  When the call is over, the chunks queried are the
\* consecutive slices of SPARQL_BATCH_SIZE identifiers, all of them, in order,
\* whatever the earlier chunks came to; the map holds an entry for exactly the
\* identifiers returned by the chunks that succeeded (each with the details of
\* its row) and none for an identifier of a failed chunk.
C8_DetailsChunksIndependent ==
    dPc = "done" =>
        LET n == Len(dIds)
            nChunks == (n + SPARQL_BATCH_SIZE - 1) \div SPARQL_BATCH_SIZE
        IN  /\ Len(dChunks) = nChunks
            /\ \A c \in 1..nChunks :
                  /\ dChunks[c].ids =
                        [k \in 1..(IF c * SPARQL_BATCH_SIZE <= n
                                      THEN SPARQL_BATCH_SIZE
                                      ELSE n - (c - 1) * SPARQL_BATCH_SIZE)
                            |-> dIds[(c - 1) * SPARQL_BATCH_SIZE + k]]
                  /\ dChunks[c].kind \in {"null", "throw"}
                        => \A id \in Range(dChunks[c].ids) : id \notin DOMAIN dMap
                  /\ dChunks[c].kind = "data"
                        => \A id \in dChunks[c].returned :
                              /\ id \in DOMAIN dMap
                              /\ dMap[id] = DetailOfRow(GraphRow(id))
            /\ DOMAIN dMap = UNION {dChunks[c].returned : c \in 1..nChunks}

\* Witness of C8: three chunks, the second one failed, the first and the third
\* are in the map.
C8_Witness ==
    /\ dPc = "done" /\ Len(dIds) = 81 /\ Len(dChunks) = 3
    /\ dChunks[1].kind = "data" /\ dChunks[2].kind = "null" /\ dChunks[3].kind = "data"
    /\ 1 \in DOMAIN dMap /\ 41 \notin DOMAIN dMap /\ 81 \in DOMAIN dMap

-----------------------------------------------------------------------------
(***************************************************************************)
(* The full sync run: the title filters.                                   *)
(***************************************************************************)

\* nonPersonPrefixes of isNonPersonTitle
NON_PERSON_PREFIXES ==
    { <<"s","p","y","s","o","k">>,
      <<"p","e","r","e","l","i","k">>,
      <<"k","a","t","e","h","o","r","i","i","a",":">>,
      <<"s","h","a","b","l","o","n",":">>,
      <<"v","i","k","i","p","e","d","i","i","a",":">>,
      <<"f","a","i","l",":">>,
      <<"p","o","r","t","a","l",":">>,
      <<"m","o","d","u","l",":">>,
      <<"d","o","v","i","d","k","a",":">>,
      <<"m","e","d","i","a","v","i","k","i",":">> }

\* The two patterns of nonPersonPatterns that are anchored at the end of the
\* title: (znachennia) and (termin)
NON_PERSON_SUFFIXES ==
    { <<"(","z","n","a","c","h","e","n","n","i","a",")">>,
      <<"(","t","e","r","m","i","n",")">> }

EndsWith(s, p) == Len(p) <= Len(s) /\ SubSeq(s, Len(s) - Len(p) + 1, Len(s)) = p

\* isNonPersonTitle.  The four \b patterns of the source are left out: \b is
\* a boundary next to an ASCII word character, and the titles of the model
\* stand for titles written in Cyrillic letters and spaces, where such a
\* boundary does not occur.
IsNonPersonTitle(title) ==
    \/ \E p \in NON_PERSON_PREFIXES : StartsWith(ToLowerCase(title), p)
    \/ \E p \in NON_PERSON_SUFFIXES : EndsWith(title, p)

IGNORED_KEYWORDS ==
    { <<"I","v","l","i","e","i","e","v","a">>,
      <<"M","e","d","v","e","d","c","h","u","k">>,
      <<"A","r","e","s","t","o","v","y","c","h">>,
      <<"M","a","r","c","h","e","n","k","o">> }

\* isIgnored
IsIgnored(title) ==
    \E w \in IGNORED_KEYWORDS : Includes(ToLowerCase(title), ToLowerCase(w))

-----------------------------------------------------------------------------
(***************************************************************************)
(* The full sync run: runFullSyncPipeline and processCategory, one step    *)
(* per awaited stage.                                                      *)
(***************************************************************************)

\* The budget of failing external calls: the number of calls that have failed
\* so far in the run, and what is left of the budget.
MaxFaults == 1

FaultsLeft == MaxFaults - calls.faults

\* tbl.get(key), with whatever the table gives for a missing key
Lookup(tbl, key, missing) == IF key \in DOMAIN tbl THEN tbl[key] ELSE missing

\* Sequence of the elements of a finite set of numbers, ascending
RECURSIVE Ascending(_)
Ascending(S) ==
    IF S = {} THEN <<>>
    ELSE LET m == CHOOSE x \in S : \A y \in S : x <= y
         IN  <<m>> \o Ascending(S \ {m})

\* The next value of the generated primary key
FreshId(table) ==
    IF DOMAIN table = {} THEN 1
    ELSE 1 + (CHOOSE x \in DOMAIN table : \A y \in DOMAIN table : y <= x)

\* The stores a run can start from: each person page is absent or stored
\* with one of the profiles (page 2 is not explored in the profiles "bare"
\* and "zero", page 3 not in "manual" and "zero").
InitialStores ==
    {st \in [PersonPages -> Profiles \cup {"absent"}] :
        /\ st[2] \in {"absent", "full", "manual"}
        /\ st[3] \in {"absent", "full", "bare"}}

StoreOf(st) ==
    LET present == Ascending({p \in PersonPages : st[p] # "absent"})
    IN  [id \in 1..Len(present) |-> StoredRow(id, present[id], st[present[id]])]

\* What the knowledge graph says about the item of each person page:
\*   "human"   the page has an item and the item is an instance of human
\*   "other"   the page has an item that is not a human
\*   "noitem"  the page has no item (no pageprops.wikibase_item)
Kinds == {"human", "other", "noitem"}

\* The worlds explored: the items of pages 1 and 3 are humans, page 2 is
\* of any kind.
Worlds == {w \in [PersonPages -> Kinds] : w[1] = "human" /\ w[3] = "human"}

\* pageprops.wikibase_item of a page, as a number (Q<p>)
WikibaseItem(w, p) == IF w[p] = "noitem" THEN 0 ELSE p

EmptyFrame ==
    [category |-> "", rawMembers |-> <<>>, filteredMembers |-> <<>>,
     existingMap |-> EmptyMap, membersToProcess |-> <<>>, topMembers |-> <<>>,
     wikidataMap |-> EmptyMap, sparql |-> <<>>, sparqlFailed |-> FALSE,
     toCheck |-> <<>>, validated |-> <<>>, detailed |-> <<>>, geocoded |-> <<>>,
     lookedUp |-> {}, humanWdIds |-> {}, cacheBefore |-> <<>>, cacheHits |-> {},
     geoLog |-> <<>>,
     people |-> <<>>, saved |-> 0, errors |-> 0, dbBefore |-> <<>>,
     limit |-> 0,        \* the limit of processCategory, 0 for undefined
     \* the locals of enrichWithDetails
     pageIdsToFetch |-> <<>>, detailsMap |-> EmptyMap, wikidataDetails |-> EmptyMap,
     fallbacks |-> {}, infoboxFailed |-> {}]

\* History of the external calls: counters for the category in progress, the
\* geocoder invocations and the cache hits of the whole run, the number of
\* calls that failed, the categories whose processCategory call threw, and
\* the number of rating recomputations.
NoCalls ==
    [listing |-> 0, views |-> 0, wikidataIds |-> 0, sparql |-> 0,
     text |-> 0, infobox |-> 0, geocoder |-> 0]

InitPipe ==
    /\ \E st \in InitialStores : db = StoreOf(st)
    /\ importLog = <<>>
    \* the cache of the service instance: empty, or left by an earlier run
    /\ geocodeCache \in {EmptyMap, MapOf({<< <<"o","l","d">>, Found(1, 1) >>})}
    /\ world \in Worlds
    /\ pc = "idle"
    /\ forceRefresh = FALSE
    /\ catIdx = 0
    /\ frame = EmptyFrame
    /\ calls = [cat |-> NoCalls, geo |-> <<>>, hits |-> {}, faults |-> 0,
                thrown |-> <<>>, recalcs |-> 0]
    /\ HttpIdle
    /\ DetailsIdle
    /\ ErIdle
    /\ RunsIdle
    /\ CallsIdle
    /\ NoEdits

\* p.birthPlace.toLowerCase().trim() / member.birthPlace.toLowerCase().trim()
CacheKey(place) == Trim(ToLowerCase(place))

\* The loop of runFullSyncPipeline that fills the cache from the rows that
\* personRepository.find({where: {lat: Not(IsNull()), lng: Not(IsNull())}})
\* returns, here in primary-key order: the first row of a key sets it.
RECURSIVE PrewarmFrom(_, _)
PrewarmFrom(rows, cache) ==
    IF rows = <<>> THEN cache
    ELSE LET p == Head(rows)
             key == CacheKey(p.birthPlace)
         IN  IF TruthyStr(p.birthPlace) /\ key \notin DOMAIN cache
                THEN PrewarmFrom(Tail(rows),
                        [k \in DOMAIN cache \cup {key} |->
                            IF k = key THEN Found(p.lat[1], p.lng[1])
                            ELSE cache[k]])
                ELSE PrewarmFrom(Tail(rows), cache)

RowsWithCoords(table) ==
    LET ids == Ascending({id \in DOMAIN table :
                            table[id].lat # NONUM /\ table[id].lng # NONUM})
    IN  [k \in 1..Len(ids) |-> table[ids[k]]]

\* runFullSyncPipeline(forceRefresh) is entered (startSync, or handleCron
\* with forceRefresh = false): this.geocodeCache.clear()
StartSync ==
    /\ pc = "idle"
    /\ \E force \in BOOLEAN : forceRefresh' = force
    /\ geocodeCache' = EmptyMap
    /\ pc' = "prewarm"
    /\ UNCHANGED <<db, importLog, world, catIdx, frame, calls>>
    /\ UNCHANGED <<httpVars, detailsVars, erVars, runVars, callVars, editVars>>

\* The rows with coordinates are read, the cache is filled, and
\* discoverCategories returns.
Prewarm ==
    /\ pc = "prewarm"
    /\ geocodeCache' = PrewarmFrom(RowsWithCoords(db), geocodeCache)
    /\ catIdx' = 1
    /\ pc' = IF Len(Categories) >= 1 THEN "fetch" ELSE "recalc"
    /\ UNCHANGED <<db, importLog, world, forceRefresh, frame, calls>>
    /\ UNCHANGED <<httpVars, detailsVars, erVars, runVars, callVars, editVars>>

Member(p) == [pageid |-> p, title |-> Title(p)]

\* Mutant of MembersToProcess: the rule of the earlier revision, which skips
\* a stored page only when its row is complete.
MembersToProcessIfIncomplete(filtered, existingMap, force) ==
    IF ~force
        THEN SelectSeq(filtered,
                LAMBDA m : \/ m.pageid \notin DOMAIN existingMap
                           \/ ~(/\ TruthyNum(existingMap[m.pageid].lat)
                                /\ TruthyText(existingMap[m.pageid].summary)
                                /\ TruthyText(existingMap[m.pageid].imageUrl)
                                /\ DOMAIN existingMap[m.pageid].meta_data # {}
                                /\ existingMap[m.pageid].views > 0))
        ELSE filtered

\* The skip-or-process decision of processCategory
MembersToProcess(filtered, existingMap, force) ==
    IF ~force
        THEN SelectSeq(filtered, LAMBDA m : m.pageid \notin DOMAIN existingMap)
        ELSE filtered

\* Mutant of ExistingMaps: no stored row is found.
ExistingMapsEmpty(table, pageIds) == {EmptyMap}

\* The maps batchLoadExisting can build for the page ids: one row per page
\* id that is stored (were two rows to share a page id, the row read last
\* would stay, and the order of the rows is not specified).
ExistingMaps(table, pageIds) ==
    LET stored == {p \in pageIds : \E id \in DOMAIN table : table[id].wikiPageId = p}
    IN  {f \in [stored -> Range(table)] : \A p \in stored : f[p].wikiPageId = p}

\* The row runFullSyncPipeline adds to the import log for a category
\* (sourceUrl is written as the category it is built from; the generated id
\* is the position of the row, importedAt is not modelled)
LogRow(category, status, message, recordsProcessed) ==
    [category |-> category, status |-> status, message |-> message,
     recordsProcessed |-> recordsProcessed]

\* Variant of AppendLog: the row takes the place of the newest row.
OverwriteLog(log, row) ==
    IF log = <<>> THEN <<row>> ELSE [log EXCEPT ![Len(log)] = row]

\* importLogRepository.save({...}) of an object without an id: a new row
AppendLog(log, row) == Append(log, row)

\* e.message of the error fetchFromWiki throws
LISTING_ERROR == <<"Wiki API error">>

\* `Processed ${people.length} people (saved: ${savedCount}, errors: ${errorCount})`
SuccessMessage(people, savedCount, errorCount) ==
    <<"Processed", Len(people), "people (saved:", savedCount, "errors:", errorCount>>

\* Variant of AfterCategory: the loop ends with the category in hand.
AfterCategoryStop(idx) == "recalc"

\* The position of the run after the loop body for category number idx
AfterCategory(idx) == IF idx < Len(Categories) THEN "fetch" ELSE "recalc"

\* processCategory starts: fetchCategoryMembers (with its isNonPersonTitle
\* filter) returns, then the isIgnored filter; or fetchCategoryMembers
\* throws, and the catch block of runFullSyncPipeline logs the failure and
\* goes on to the next category.
FetchMembers ==
    /\ pc = "fetch" /\ catIdx <= Len(Categories)
    /\ LET c == Categories[catIdx]
           listed == [k \in DOMAIN CategoryPages(c) |-> Member(CategoryPages(c)[k])]
           raw == SelectSeq(listed, LAMBDA m : ~IsNonPersonTitle(m.title))
       IN  \E ok \in BOOLEAN :
            IF ok
              THEN /\ frame' = [EmptyFrame EXCEPT
                                  !.category = c,
                                  !.rawMembers = raw,
                                  !.filteredMembers =
                                      SelectSeq(raw, LAMBDA m : ~IsIgnored(m.title))]
                   /\ pc' = "load"
                   /\ calls' = [calls EXCEPT !.cat = [NoCalls EXCEPT !.listing = 1]]
                   /\ UNCHANGED <<importLog, catIdx>>
              ELSE /\ FaultsLeft >= 1
                   /\ frame' = [EmptyFrame EXCEPT !.category = c]
                   /\ importLog' = AppendLog(importLog, LogRow(c, "FAILED", LISTING_ERROR, 0))
                   /\ catIdx' = catIdx + 1
                   /\ pc' = AfterCategory(catIdx)
                   /\ calls' = [calls EXCEPT !.cat = [NoCalls EXCEPT !.listing = 1],
                                             !.faults = @ + 1,
                                             !.thrown = Append(@, c)]
    /\ UNCHANGED <<db, geocodeCache, world, forceRefresh>>
    /\ UNCHANGED <<httpVars, detailsVars, erVars, runVars, callVars, editVars>>

\* batchLoadExisting and the skip-or-process decision; with nothing left to
\* process, processCategory returns {people: [], existingMap} at once.
LoadExisting ==
    /\ pc = "load"
    /\ \E em \in ExistingMaps(db, {frame.filteredMembers[k].pageid
                                      : k \in DOMAIN frame.filteredMembers}) :
        LET todo == MembersToProcess(frame.filteredMembers, em, forceRefresh)
        IN  /\ frame' = [frame EXCEPT !.existingMap = em,
                                      !.membersToProcess = todo]
            /\ pc' = IF todo = <<>> THEN "save" ELSE "views"
    /\ UNCHANGED <<db, importLog, geocodeCache, world, forceRefresh, catIdx, calls>>
    /\ UNCHANGED <<httpVars, detailsVars, erVars, runVars, callVars, editVars>>


\* results.sort((a, b) => b.views - a.views): the sort is stable, members
\* with equal views keep their order.
RECURSIVE SortByViewsDesc(_)
SortByViewsDesc(s) ==
    IF s = <<>> THEN <<>>
    ELSE LET k == CHOOSE i \in DOMAIN s :
                    /\ \A j \in DOMAIN s : s[j].views <= s[i].views
                    /\ \A j \in 1..(i - 1) : s[j].views < s[i].views
         IN  <<s[k]>> \o SortByViewsDesc(SubSeq(s, 1, k - 1) \o SubSeq(s, k + 1, Len(s)))

\* The members enrichWithViews asks the page-view API about
NeedsViews(members, existingMap, force) ==
    {k \in DOMAIN members :
        force \/ ~(/\ members[k].pageid \in DOMAIN existingMap
                   /\ existingMap[members[k].pageid].views > 0)}

\* enrichWithViews; `failed` holds the members whose fetchPageViews call
\* came to 0 (not ok, unreadable body, timeout).
EnrichWithViews(members, existingMap, force, failed) ==
    LET fetched == NeedsViews(members, existingMap, force)
        results == [k \in DOMAIN members |->
                      [pageid |-> members[k].pageid,
                       title  |-> members[k].title,
                       views  |-> IF k \notin fetched
                                     THEN existingMap[members[k].pageid].views
                                  ELSE IF k \in failed THEN 0
                                  ELSE PageViews(members[k].pageid)]]
    IN  SortByViewsDesc(results)

\* Variant of TopMembers: the sorted head is handed on whole, the cut to
\* the limit is left to a later stage.
TopMembersUncut(withViews, limit) == withViews

\* processCategory: topMembers = withViews.slice(0, limit) under a limit,
\* otherwise every enriched member
TopMembers(withViews, limit) ==
    IF limit # 0 THEN Slice(withViews, 0, limit) ELSE withViews

\* processCategory: membersToProcess.slice(0, limit * 3) under a limit
ViewsSubset(membersToProcess, limit) ==
    IF limit # 0 THEN Slice(membersToProcess, 0, limit * 3) ELSE membersToProcess

\* processCategory, the call of enrichWithViews.  runFullSyncPipeline passes
\* limit = undefined, so every member to process is enriched;
\* syncSingleCategory passes a limit.
EnrichViews ==
    /\ pc = "views"
    /\ LET members == ViewsSubset(frame.membersToProcess, frame.limit)
           fetched == NeedsViews(members, frame.existingMap, forceRefresh)
       IN  \E failed \in SUBSET fetched :
            /\ Cardinality(failed) <= FaultsLeft
            /\ frame' = [frame EXCEPT !.topMembers =
                            TopMembers(EnrichWithViews(members, frame.existingMap,
                                                       forceRefresh, failed),
                                       frame.limit)]
            /\ calls' = [calls EXCEPT !.cat.views = @ + Cardinality(fetched),
                                      !.faults = @ + Cardinality(failed)]
    /\ pc' = "humans"
    /\ UNCHANGED <<db, importLog, geocodeCache, world, forceRefresh, catIdx>>
    /\ UNCHANGED <<httpVars, detailsVars, erVars, runVars, callVars, editVars>>

\* What the answers of the outside world can be to one chunk query
ChunkKinds == {"data", "null", "throw"}

\* Whether the graph asserts that the item is an instance of human
IsHuman(w, id) == id \in DOMAIN w /\ w[id] = "human"

\* BATCH_SIZE of fetchWikidataIds
WIKIDATA_IDS_BATCH_SIZE == 50

IdBatches(n) == (n + WIKIDATA_IDS_BATCH_SIZE - 1) \div WIKIDATA_IDS_BATCH_SIZE

\* fetchWikidataIds(pageIds): batch by batch, the pages that have an item
\* are mapped to it; a batch whose request fails (ok[n] = FALSE) adds
\* nothing, the error is caught and logged.
FetchWikidataIds(w, pageIds, ok) ==
    LET answered == {k \in DOMAIN pageIds :
                        /\ ok[((k - 1) \div WIKIDATA_IDS_BATCH_SIZE) + 1]
                        /\ WikibaseItem(w, pageIds[k]) # 0}
    IN  [p \in {pageIds[k] : k \in answered} |-> WikibaseItem(w, p)]

Failures(ok) == Cardinality({n \in DOMAIN ok : ~ok[n]})

PageIds(members) == [k \in DOMAIN members |-> members[k].pageid]

\* Object.values(wikidataMap): integer keys come in ascending order
ObjectValues(map) ==
    LET keys == Ascending(DOMAIN map)
    IN  [k \in 1..Len(keys) |-> map[keys[k]]]

\* The chunk loop of filterHumansOnly from index i on.  outcome[n] is what
\* the n-th chunk query comes to; acc holds humanWdIds, sparqlFailed and
\* the chunks queried so far.
RECURSIVE HumanCheck(_, _, _, _, _)
HumanCheck(w, allWdIds, i, outcome, acc) ==
    IF i >= Len(allWdIds) THEN acc
    ELSE LET batchIds == Slice(allWdIds, i, i + SPARQL_BATCH_SIZE)
             kind == outcome[(i \div SPARQL_BATCH_SIZE) + 1]
             asked == Append(acc.batches, batchIds)
         IN  IF kind = "data"
                THEN HumanCheck(w, allWdIds, i + SPARQL_BATCH_SIZE, outcome,
                        [acc EXCEPT !.humanWdIds =
                                        @ \cup {id \in Range(batchIds) : IsHuman(w, id)},
                                    !.batches = asked])
                ELSE [acc EXCEPT !.sparqlFailed = TRUE, !.batches = asked]

\* Mutant of ValidatedMembers: a failed check lets nobody through that was
\* pending.
ValidatedMembersFailClosed(result, toCheck, wikidataMap, humanWdIds, sparqlFailed) ==
    IF sparqlFailed THEN result
    ELSE result \o SelectSeq(toCheck,
                     LAMBDA m : /\ m.pageid \in DOMAIN wikidataMap
                                /\ wikidataMap[m.pageid] \in humanWdIds)

\* Mutant of ValidatedMembers: a member passes as soon as it has an item.
ValidatedMembersAnyItem(result, toCheck, wikidataMap, humanWdIds, sparqlFailed) ==
    IF sparqlFailed THEN result \o toCheck
    ELSE result \o SelectSeq(toCheck, LAMBDA m : m.pageid \in DOMAIN wikidataMap)

\* The end of filterHumansOnly: `return [...result, ...toCheck]` after a
\* failed chunk, otherwise result plus the members whose item is in
\* humanWdIds.
ValidatedMembers(result, toCheck, wikidataMap, humanWdIds, sparqlFailed) ==
    IF sparqlFailed THEN result \o toCheck
    ELSE result \o SelectSeq(toCheck,
                     LAMBDA m : /\ m.pageid \in DOMAIN wikidataMap
                                /\ wikidataMap[m.pageid] \in humanWdIds)

NumChunks(n) == (n + SPARQL_BATCH_SIZE - 1) \div SPARQL_BATCH_SIZE

\* filterHumansOnly(topMembers, existingMap)
FilterHumans ==
    /\ pc = "humans"
    /\ LET members == frame.topMembers
           result  == SelectSeq(members, LAMBDA m : m.pageid \in DOMAIN frame.existingMap)
           toCheck == SelectSeq(members, LAMBDA m : m.pageid \notin DOMAIN frame.existingMap)
           pages   == {toCheck[k].pageid : k \in DOMAIN toCheck}
       IN  IF toCheck = <<>>
             THEN /\ frame' = [frame EXCEPT !.validated = result]
                  /\ UNCHANGED calls
             ELSE \E idsOk \in [1..IdBatches(Len(toCheck)) -> BOOLEAN] :
                   LET wikidataMap == FetchWikidataIds(world, PageIds(toCheck), idsOk)
                       allWdIds == ObjectValues(wikidataMap)
                   IN  /\ Failures(idsOk) <= FaultsLeft
                       /\ IF allWdIds = <<>>
                            THEN /\ frame' = [frame EXCEPT !.toCheck = toCheck,
                                                           !.lookedUp = pages,
                                                           !.wikidataMap = wikidataMap,
                                                           !.validated = result]
                                 /\ calls' = [calls EXCEPT
                                                !.cat.wikidataIds = @ + Len(idsOk),
                                                !.faults = @ + Failures(idsOk)]
                            ELSE \E outcome \in [1..NumChunks(Len(allWdIds)) -> ChunkKinds] :
                                  LET chk == HumanCheck(world, allWdIds, 0, outcome,
                                                [humanWdIds |-> {}, sparqlFailed |-> FALSE,
                                                 batches |-> <<>>])
                                  IN  /\ (\A n \in DOMAIN outcome : outcome[n] = "data")
                                            \/ /\ FaultsLeft >= 1 + Failures(idsOk)
                                               /\ chk.sparqlFailed
                                               /\ \A n \in DOMAIN outcome :
                                                     n > Len(chk.batches) => outcome[n] = "data"
                                      /\ frame' = [frame EXCEPT
                                            !.toCheck = toCheck,
                                            !.lookedUp = pages,
                                            !.wikidataMap = wikidataMap,
                                            !.sparql = chk.batches,
                                            !.sparqlFailed = chk.sparqlFailed,
                                            !.humanWdIds = chk.humanWdIds,
                                            !.validated =
                                                ValidatedMembers(result, toCheck, wikidataMap,
                                                    chk.humanWdIds, chk.sparqlFailed)]
                                      /\ calls' = [calls EXCEPT
                                            !.cat.wikidataIds = @ + Len(idsOk),
                                            !.cat.sparql = @ + Len(chk.batches),
                                            !.faults = @ + Failures(idsOk)
                                                         + (IF chk.sparqlFailed THEN 1 ELSE 0)]
    /\ pc' = "details"
    /\ UNCHANGED <<db, importLog, geocodeCache, world, forceRefresh, catIdx>>
    /\ UNCHANGED <<httpVars, detailsVars, erVars, runVars, callVars, editVars>>


\* undefined, for a value that is otherwise a list of labels
NOOCC == << <<UNDEF>> >>

\* [A-Za-z0-9_]: the characters between which \b finds no boundary
IsWordChar(c) == IsLetterOrNumber(c) \/ c = "_"

\* parseInt of a run of digits
RECURSIVE ParseInt(_)
ParseInt(digits) ==
    IF digits = <<>> THEN 0
    ELSE LET last == digits[Len(digits)]
             value == CHOOSE n \in 0..9 :
                        <<"0","1","2","3","4","5","6","7","8","9">>[n + 1] = last
         IN  10 * ParseInt(SubSeq(digits, 1, Len(digits) - 1)) + value

\* Variant of ExtractBirthYear: the first four digits in a row, whatever
\* stands next to them.
ExtractBirthYearAnyDigits(dateStr) ==
    LET four(i) == i + 3 <= Len(dateStr) /\ \A k \in i..(i + 3) : dateStr[k] \in Digits
        hits == {i \in DOMAIN dateStr : four(i)}
    IN  IF dateStr = NULLSTR \/ dateStr = <<UNDEF>> \/ hits = {} THEN NONUM
        ELSE LET i == CHOOSE h \in hits : \A o \in hits : h <= o
             IN  Num(ParseInt(SubSeq(dateStr, i, i + 3)))

\* EntityResolutionService.extractBirthYear: `!dateStr` gives null; else
\* the group of /^(\d{4})-/; else the group of the first match of
\* /\b(\d{4})\b/; else null
ExtractBirthYear(dateStr) ==
    LET four(i) == i + 3 <= Len(dateStr) /\ \A k \in i..(i + 3) : dateStr[k] \in Digits
        isoMatch == four(1) /\ Len(dateStr) >= 5 /\ dateStr[5] = "-"
        bounded(i) == /\ four(i)
                      /\ i = 1 \/ ~IsWordChar(dateStr[i - 1])
                      /\ i + 3 = Len(dateStr) \/ ~IsWordChar(dateStr[i + 4])
        hits == {i \in DOMAIN dateStr : bounded(i)}
    IN  IF dateStr = NULLSTR \/ dateStr = <<UNDEF>> \/ dateStr = <<>> THEN NONUM
        ELSE IF isoMatch THEN Num(ParseInt(SubSeq(dateStr, 1, 4)))
        ELSE IF hits # {}
            THEN LET i == CHOOSE h \in hits : \A o \in hits : h <= o
                 IN  Num(ParseInt(SubSeq(dateStr, i, i + 3)))
        ELSE NONUM

\* The characters of the date texts of the model (null and undefined stay
\* what they are)
DateChars(text) ==
    CASE text = NULL -> NULLSTR
      [] text = UNDEF -> <<UNDEF>>
      [] text = "1814-03-09" -> <<"1","8","1","4","-","0","3","-","0","9">>
      [] text = "1861-03-10" -> <<"1","8","6","1","-","0","3","-","1","0">>
      [] text = "1871-02-25" -> <<"1","8","7","1","-","0","2","-","2","5">>
      [] text = "1856-08-27" -> <<"1","8","5","6","-","0","8","-","2","7">>
      [] text = "1900-01-01" -> <<"1","9","0","0","-","0","1","-","0","1">>
      [] text = "1800-01-01" -> <<"1","8","0","0","-","0","1","-","0","1">>
      [] text = "27 serpnia 1856" ->
            <<"2","7"," ","s","e","r","p","n","i","a"," ","1","8","5","6">>
      [] text = "1861" -> <<"1","8","6","1">>
      [] text = "972" -> <<"9","7","2">>
      [] text = "0972-03-01" -> <<"0","9","7","2","-","0","3","-","0","1">>
      \* the identifier the knowledge graph returns for an unknown value
      [] text = "genid/8f3a" -> <<"g","e","n","i","d","/","8","f","3","a">>

\* fetchSparqlDetails(wdIds) from index i on; outcome[n] is what the n-th
\* chunk query comes to.
RECURSIVE FetchSparqlDetails(_, _, _, _)
FetchSparqlDetails(wdIds, i, outcome, resultMap) ==
    IF i >= Len(wdIds) THEN resultMap
    ELSE LET batch == DetailsBatch(wdIds, i)
             kind == outcome[(i \div SPARQL_BATCH_SIZE) + 1]
             rows == [k \in 1..Len(batch) |-> GraphRow(batch[k])]
         IN  FetchSparqlDetails(wdIds, DetailsNextIndex(i, kind, Len(wdIds)), outcome,
                IF kind = "data" THEN MergeRows(resultMap, rows) ELSE resultMap)

\* fetchWikiTextDetails for page ids that fit one batch of 5
FetchWikiTextDetails(pageIds, ok) ==
    IF ok THEN [p \in pageIds |-> WikiText(p)] ELSE EmptyMap

\* parseInfoboxHtml
ParseInfoboxHtml(pageId, ok) ==
    IF ok THEN InfoboxData(pageId) ELSE [birthDate |-> NULL, birthPlace |-> NULLSTR]

\* isFullyCached of enrichWithDetails
IsFullyCached(existingMap, pageId) ==
    /\ pageId \in DOMAIN existingMap
    /\ LET existing == existingMap[pageId]
       IN  /\ TruthyNum(existing.lat)
           /\ ~existing.isManual
           /\ DOMAIN existing.meta_data # {}
           /\ TruthyText(existing.summary)
           /\ TruthyText(existing.imageUrl)

\* The member enrichWithDetails builds from the stored row
DetailedFromDb(member, existing) ==
    [pageid |-> member.pageid, title |-> member.title, views |-> member.views,
     birthDate |-> existing.birthDate,
     birthPlace |-> existing.birthPlace,
     summary |-> existing.summary,
     imageUrl |-> existing.imageUrl,
     occupation |-> Lookup(existing.meta_data, "occupation", NOOCC),
     deathPlace |-> Lookup(existing.meta_data, "deathPlace", UNDEF),
     deathDate |-> IF TruthyNum(Lookup(existing.meta_data, "deathYear", NONUM))
                      THEN YearToString(existing.meta_data["deathYear"][1])
                      ELSE NULL]

\* sparqlData of enrichWithDetails: <<>> for undefined, else <<entry>>
SparqlData(wikidataMap, wikidataDetails, pageId) ==
    IF pageId \in DOMAIN wikidataMap /\ wikidataMap[pageId] \in DOMAIN wikidataDetails
        THEN <<wikidataDetails[wikidataMap[pageId]]>>
        ELSE <<>>

\* Variant of NeedsFallback: parseInfoboxHtml is called only when both the
\* birth date and the birth place are missing.
NeedsFallbackBoth(wikidataMap, wikidataDetails, pageId) ==
    LET sd == SparqlData(wikidataMap, wikidataDetails, pageId)
    IN  \/ sd = <<>>
        \/ ~TruthyText(sd[1].birthDate) /\ ~TruthyStr(sd[1].birthPlace)

\* Whether enrichWithDetails calls parseInfoboxHtml for the page
NeedsFallback(wikidataMap, wikidataDetails, pageId) ==
    LET sd == SparqlData(wikidataMap, wikidataDetails, pageId)
    IN  \/ sd = <<>>
        \/ ~TruthyText(sd[1].birthDate)
        \/ ~TruthyStr(sd[1].birthPlace)

\* The member enrichWithDetails builds from the fetched data
DetailedFetched(member, wikidataMap, wikidataDetails, wikiTextDetails, infoboxOk) ==
    LET sd == SparqlData(wikidataMap, wikidataDetails, member.pageid)
        birthDate0 == IF sd # <<>> /\ TruthyText(sd[1].birthDate)
                         THEN sd[1].birthDate ELSE NULL
        birthPlace0 == IF sd # <<>> /\ TruthyStr(sd[1].birthPlace)
                          THEN sd[1].birthPlace ELSE NULLSTR
        fallback == ParseInfoboxHtml(member.pageid, infoboxOk)
        needs == NeedsFallback(wikidataMap, wikidataDetails, member.pageid)
    IN  [pageid |-> member.pageid, title |-> member.title, views |-> member.views,
         birthDate |-> IF needs /\ ~TruthyText(birthDate0)
                          THEN fallback.birthDate ELSE birthDate0,
         birthPlace |-> IF needs /\ ~TruthyStr(birthPlace0)
                           THEN fallback.birthPlace ELSE birthPlace0,
         summary |-> IF member.pageid \in DOMAIN wikiTextDetails
                        THEN wikiTextDetails[member.pageid].summary ELSE UNDEF,
         imageUrl |-> IF member.pageid \in DOMAIN wikiTextDetails
                         THEN wikiTextDetails[member.pageid].image ELSE UNDEF,
         occupation |-> IF sd # <<>> THEN sd[1].occupations ELSE <<>>,
         deathPlace |-> UNDEF,
         deathDate |-> IF sd # <<>> /\ TruthyText(sd[1].deathDate)
                          THEN sd[1].deathDate ELSE UNDEF]

\* enrichWithDetails(validatedMembers, existingMap)
EnrichDetails ==
    /\ pc = "details"
    /\ LET members == frame.validated
           cached == SelectSeq(members,
                        LAMBDA m : IsFullyCached(frame.existingMap, m.pageid))
           toFetch == SelectSeq(members,
                        LAMBDA m : ~IsFullyCached(frame.existingMap, m.pageid))
           pageIdsToFetch == {toFetch[k].pageid : k \in DOMAIN toFetch}
           enrichedFromDb == [k \in DOMAIN cached |->
                                DetailedFromDb(cached[k], frame.existingMap[cached[k].pageid])]
       IN  IF toFetch = <<>>
             THEN /\ frame' = [frame EXCEPT !.detailed = enrichedFromDb]
                  /\ UNCHANGED calls
             ELSE \E idsOk \in [1..IdBatches(Len(toFetch)) -> BOOLEAN], textOk \in BOOLEAN :
                   LET wikidataMap == FetchWikidataIds(world, PageIds(toFetch), idsOk)
                       wdIds == ObjectValues(wikidataMap)
                   IN  \E outcome \in [1..NumChunks(Len(wdIds)) -> ChunkKinds] :
                        LET wikidataDetails == FetchSparqlDetails(wdIds, 0, outcome, EmptyMap)
                            wikiTextDetails == FetchWikiTextDetails(pageIdsToFetch, textOk)
                            fallbacks == {p \in pageIdsToFetch :
                                            NeedsFallback(wikidataMap, wikidataDetails, p)}
                        IN  \E infoboxFailed \in SUBSET fallbacks :
                             LET nFaults == Failures(idsOk)
                                            + (IF textOk THEN 0 ELSE 1)
                                            + Cardinality({n \in DOMAIN outcome :
                                                              outcome[n] # "data"})
                                            + Cardinality(infoboxFailed)
                                 enrichedFetched ==
                                    [k \in DOMAIN toFetch |->
                                        DetailedFetched(toFetch[k], wikidataMap,
                                            wikidataDetails, wikiTextDetails,
                                            toFetch[k].pageid \notin infoboxFailed)]
                             IN  /\ nFaults <= FaultsLeft
                                 /\ frame' = [frame EXCEPT
                                        !.detailed = enrichedFromDb \o enrichedFetched,
                                        !.pageIdsToFetch = PageIds(toFetch),
                                        !.detailsMap = wikidataMap,
                                        !.wikidataDetails = wikidataDetails,
                                        !.fallbacks = fallbacks,
                                        !.infoboxFailed = infoboxFailed]
                                 /\ calls' = [calls EXCEPT
                                        !.cat.wikidataIds = @ + Len(idsOk),
                                        !.cat.sparql = @ + NumChunks(Len(wdIds)),
                                        !.cat.text = @ + 1,
                                        !.cat.infobox = @ + Cardinality(fallbacks),
                                        !.faults = @ + nFaults]
    /\ pc' = "geo"
    /\ UNCHANGED <<db, importLog, geocodeCache, world, forceRefresh, catIdx>>
    /\ UNCHANGED <<httpVars, detailsVars, erVars, runVars, callVars, editVars>>


\* resolveGeoLocation: address.replace(/\(.*\)/, '').trim() is looked up; an
\* error of the request is caught and comes to null.
ResolveGeoLocation(address, ok) ==
    IF ok THEN GeocoderAnswer(Trim(StripParensGreedyOnce(address))) ELSE NOTFOUND

\* The test at the head of the loop of enrichWithCoordinates:
\* existing && existing.lat && existing.lng && !existing.isManual
SkipsGeocoding(existingMap, pageId) ==
    /\ pageId \in DOMAIN existingMap
    /\ TruthyNum(existingMap[pageId].lat)
    /\ TruthyNum(existingMap[pageId].lng)
    /\ ~existingMap[pageId].isManual

\* Mutant of CacheHas: the cache is never consulted.
CacheHasNothing(cache, key) == FALSE

\* this.geocodeCache.has(cacheKey)
CacheHas(cache, key) == key \in DOMAIN cache

\* this.geocodeCache.set(cacheKey, coords)
CacheSet(cache, key, coords) ==
    [k \in DOMAIN cache \cup {key} |-> IF k = key THEN coords ELSE cache[k]]

\* Mutant of WithCoords: only the latitude is copied.
WithLatitudeOnly(member, lat, lng) ==
    [pageid |-> member.pageid, title |-> member.title, views |-> member.views,
     birthDate |-> member.birthDate, birthPlace |-> member.birthPlace,
     summary |-> member.summary, imageUrl |-> member.imageUrl,
     occupation |-> member.occupation, deathPlace |-> member.deathPlace,
     deathDate |-> member.deathDate, lat |-> lat, lng |-> NONUM]

\* result.push({ ...member, lat: ..., lng: ... })
WithCoords(member, lat, lng) ==
    [pageid |-> member.pageid, title |-> member.title, views |-> member.views,
     birthDate |-> member.birthDate, birthPlace |-> member.birthPlace,
     summary |-> member.summary, imageUrl |-> member.imageUrl,
     occupation |-> member.occupation, deathPlace |-> member.deathPlace,
     deathDate |-> member.deathDate, lat |-> lat, lng |-> lng]

\* The loop of enrichWithCoordinates from member k on.  `failed` holds the
\* members whose geocoder request fails; acc holds the result, the cache and
\* the geocoder invocations.
RECURSIVE CoordinatesLoop(_, _, _, _, _)
CoordinatesLoop(members, k, existingMap, failed, acc) ==
    IF k > Len(members) THEN acc
    ELSE LET member == members[k]
             cacheKey == CacheKey(member.birthPlace)
         IN  IF SkipsGeocoding(existingMap, member.pageid)
               THEN CoordinatesLoop(members, k + 1, existingMap, failed,
                        [acc EXCEPT !.result = Append(@,
                            WithCoords(member, existingMap[member.pageid].lat,
                                               existingMap[member.pageid].lng))])
             ELSE IF ~(TruthyStr(member.birthPlace) /\ member.birthPlace # UNKNOWN_PLACE)
               THEN CoordinatesLoop(members, k + 1, existingMap, failed,
                        [acc EXCEPT !.result = Append(@, WithCoords(member, NONUM, NONUM))])
             ELSE LET hit == CacheHas(acc.cache, cacheKey)
                      coords == IF hit THEN acc.cache[cacheKey]
                                ELSE ResolveGeoLocation(member.birthPlace, k \notin failed)
                      out == WithCoords(member,
                                IF coords = NOTFOUND THEN NONUM ELSE Num(coords[1].lat),
                                IF coords = NOTFOUND THEN NONUM ELSE Num(coords[1].lng))
                  IN  CoordinatesLoop(members, k + 1, existingMap, failed,
                        IF hit
                          THEN [acc EXCEPT !.result = Append(@, out),
                                           !.hits = @ \cup
                                              {[page |-> member.pageid, key |-> cacheKey,
                                                new |-> member.pageid \notin
                                                            DOMAIN existingMap]}]
                          ELSE [result |-> Append(acc.result, out),
                                cache |-> CacheSet(acc.cache, cacheKey, coords),
                                hits |-> acc.hits,
                                log |-> Append(acc.log,
                                          [key |-> cacheKey, page |-> member.pageid,
                                           index |-> k, ok |-> k \notin failed,
                                           answer |-> coords])])

\* Math.log10 of a power of ten
RECURSIVE Log10(_)
Log10(n) == IF n <= 1 THEN 0 ELSE 1 + Log10(n \div 10)

\* calculateRating, in hundredths: Math.min(10, Math.log10(views + 1) * 2).
\* The views of the model are 10^k - 1.
CalculateRating(views) ==
    LET r == Log10(views + 1) * 200
    IN  IF r < 1000 THEN r ELSE 1000

WikiPerson(member, category) ==
    [pageid |-> member.pageid, title |-> member.title, views |-> member.views,
     birthDate |-> member.birthDate, birthPlace |-> member.birthPlace,
     summary |-> member.summary, imageUrl |-> member.imageUrl,
     occupation |-> member.occupation, deathPlace |-> member.deathPlace,
     deathDate |-> member.deathDate, lat |-> member.lat, lng |-> member.lng,
     category |-> category, rating |-> CalculateRating(member.views)]

\* enrichWithCoordinates(detailedMembers, existingMap) and the return
\* statement of processCategory
EnrichCoordinates ==
    /\ pc = "geo"
    /\ \E failed \in SUBSET DOMAIN frame.detailed :
        LET run == CoordinatesLoop(frame.detailed, 1, frame.existingMap, failed,
                      [result |-> <<>>, cache |-> geocodeCache, hits |-> {}, log |-> <<>>])
        IN  /\ Cardinality(failed) <= FaultsLeft
            /\ failed \subseteq {run.log[j].index : j \in DOMAIN run.log}
            /\ geocodeCache' = run.cache
            /\ frame' = [frame EXCEPT
                            !.geocoded = run.result,
                            !.cacheBefore = geocodeCache,
                            !.cacheHits = run.hits,
                            !.geoLog = run.log,
                            !.people = [k \in DOMAIN run.result |->
                                          WikiPerson(run.result[k], frame.category)]]
            /\ calls' = [calls EXCEPT !.cat.geocoder = @ + Len(run.log),
                                      !.geo = @ \o run.log,
                                      !.hits = @ \cup run.hits,
                                      !.faults = @ + Cardinality(failed)]
    /\ pc' = "save"
    /\ UNCHANGED <<db, importLog, world, forceRefresh, catIdx>>
    /\ UNCHANGED <<httpVars, detailsVars, erVars, runVars, callVars, editVars>>


SAVE_BATCH_SIZE == 50

\* The entries of categoryMap for the labels of the model: poet and
\* pysmennyk are writers, kompozytor a composer
OccupationTable ==
    MapOf({<<POET, WRITER>>, <<PYSMENNYK, WRITER>>, <<KOMPOZYTOR, COMPOSER>>})

\* categoryMap[lower], for the labels of the model: the tag of a label of
\* the table; the member the object literal inherits for a name of
\* Object.prototype ("constructor" is the function Object); else undefined
CategoryMap(lower) ==
    IF lower \in DOMAIN OccupationTable THEN OccupationTable[lower]
    ELSE IF lower = CONSTRUCTOR THEN OBJECT_FUNCTION
    ELSE <<UNDEF>>

\* The callback of occupationLabels.map: categoryMap[lower] || lower, with
\* lower = label.toLowerCase().trim()
CategoryOf(label) ==
    LET lower == Trim(ToLowerCase(label))
    IN  IF CategoryMap(lower) # <<UNDEF>> THEN CategoryMap(lower) ELSE lower

\* EntityResolutionService.enrichOccupations: the mapped labels, each kept
\* at its first occurrence, and `mapped[0] || null`
EnrichOccupations(labels) ==
    LET all == [k \in DOMAIN labels |-> CategoryOf(labels[k])]
        first == {k \in DOMAIN all : \A j \in 1..(k - 1) : all[j] # all[k]}
        keep == Ascending(first)
        mapped == [k \in 1..Len(keep) |-> all[keep[k]]]
    IN  IF labels = NOOCC \/ labels = <<>>
            THEN [occupations |-> <<>>, primaryCategory |-> NULLSTR]
            ELSE [occupations |-> mapped,
                  primaryCategory |-> IF mapped[1] # <<>> THEN mapped[1] ELSE NULLSTR]

\* payload.meta_data of buildPersonPayload, as it is stored (a key whose
\* value is undefined is not written)
MergedMetaData(data, old) ==
    LET occupations == IF data.occupation # NOOCC
                          THEN EnrichOccupations(data.occupation).occupations ELSE <<>>
        occupation == IF occupations # <<>> THEN occupations
                      ELSE Lookup(old, "occupation", NOOCC)
        deathPlace == IF TruthyText(data.deathPlace) THEN data.deathPlace
                      ELSE Lookup(old, "deathPlace", UNDEF)
        hasYear == TruthyText(data.deathDate) \/ "deathYear" \in DOMAIN old
        deathYear == IF TruthyText(data.deathDate) THEN ExtractBirthYear(DateChars(data.deathDate))
                     ELSE Lookup(old, "deathYear", NONUM)
        keys == (DOMAIN old \ {"occupation", "deathPlace", "deathYear"})
                  \cup (IF occupation # NOOCC THEN {"occupation"} ELSE {})
                  \cup (IF deathPlace # UNDEF THEN {"deathPlace"} ELSE {})
                  \cup (IF hasYear THEN {"deathYear"} ELSE {})
    IN  [k \in keys |->
            CASE k = "occupation" -> occupation
              [] k = "deathPlace" -> deathPlace
              [] k = "deathYear"  -> deathYear
              [] OTHER -> old[k]]

\* Mutant of IsManualEntry: no stored row counts as curated by hand.
IsManualEntryNever(existingMap, pageId) == FALSE

\* `existing && existing.isManual` of buildPersonPayload
IsManualEntry(existingMap, pageId) ==
    pageId \in DOMAIN existingMap /\ existingMap[pageId].isManual

\* buildPersonPayload: <<>> for null, else <<[payload, existingId]>>, with
\* existingId = 0 for undefined
BuildPersonPayload(data, existingMap) ==
    IF IsManualEntry(existingMap, data.pageid) THEN <<>>
    ELSE LET has == data.pageid \in DOMAIN existingMap
             normalized == IF TruthyStr(data.birthPlace)
                              THEN NormalizeBirthPlace(data.birthPlace) ELSE NULLSTR
             birthPlace == IF TruthyStr(normalized) /\ AllDigits(Trim(normalized))
                              THEN NULLSTR ELSE normalized
         IN  <<[payload |->
                  [name |-> data.title,
                   slug |-> ToSlug(data.title),
                   wikiPageId |-> data.pageid,
                   views |-> data.views,
                   rating |-> data.rating,
                   summary |-> OrText(data.summary,
                                 OrText(IF has THEN existingMap[data.pageid].summary
                                        ELSE UNDEF, NULL)),
                   imageUrl |-> OrText(data.imageUrl,
                                  OrText(IF has THEN existingMap[data.pageid].imageUrl
                                         ELSE UNDEF, NULL)),
                   birthDate |-> data.birthDate,
                   birthPlace |-> birthPlace,
                   lat |-> data.lat,
                   lng |-> data.lng,
                   meta_data |-> MergedMetaData(data,
                                    IF has THEN existingMap[data.pageid].meta_data
                                    ELSE EmptyMap)],
                existingId |-> IF has THEN existingMap[data.pageid].id ELSE 0]>>

\* The row an insert of the payload creates (isManual defaults to false,
\* birthLocation to null)
NewRow(id, payload) ==
    PersonRow(id, payload.wikiPageId, FALSE, payload.name, payload.slug,
              payload.lat, payload.lng, <<>>, payload.birthPlace, payload.birthDate, payload.views,
              payload.rating, payload.summary, payload.imageUrl, payload.meta_data)

\* The row after personRepository.update(id, payload)
UpdatedRow(row, payload) ==
    PersonRow(row.id, payload.wikiPageId, row.isManual, payload.name, payload.slug,
              payload.lat, payload.lng, row.birthLocation, payload.birthPlace, payload.birthDate,
              payload.views, payload.rating, payload.summary, payload.imageUrl,
              payload.meta_data)

\* UPDATE person SET "birthLocation" = ST_MakePoint(lng, lat) WHERE id = ...
WithGeometry(table, id, lat, lng) ==
    IF id \in DOMAIN table
        THEN [table EXCEPT ![id].birthLocation = <<lng[1], lat[1]>>]
        ELSE table      \* WHERE id = ... matches no row

\* personRepository.save(newPayloads): the rows get the next primary keys
InsertOne(table, id, payload) ==
    [k \in DOMAIN table \cup {id} |-> IF k = id THEN NewRow(id, payload) ELSE table[k]]

RECURSIVE InsertAll(_, _)
InsertAll(table, payloads) ==
    IF payloads = <<>> THEN table
    ELSE Then(InsertOne(table, FreshId(table), Head(payloads)),
              LAMBDA t : InsertAll(t, Tail(payloads)))

\* The batched geometry update of the rows just inserted, for the payloads
\* with `person.lat && person.lng`
RECURSIVE GeometryOfNew(_, _, _)
GeometryOfNew(table, firstId, payloads) ==
    IF payloads = <<>> THEN table
    ELSE Then(IF TruthyNum(Head(payloads).lat) /\ TruthyNum(Head(payloads).lng)
                 THEN WithGeometry(table, firstId, Head(payloads).lat, Head(payloads).lng)
                 ELSE table,
              LAMBDA t : GeometryOfNew(t, firstId + 1, Tail(payloads)))

\* The loop over updateOps from op k on; updOutcome[k] is "ok",
\* "updateFail" (update throws) or "geoFail" (the geometry query throws).
RECURSIVE ApplyUpdates(_, _, _, _)
ApplyUpdates(ops, k, updOutcome, acc) ==
    IF k > Len(ops) THEN acc
    ELSE LET op == ops[k]
             hasGeo == TruthyNum(op.payload.lat) /\ TruthyNum(op.payload.lng)
             updated == IF op.existingId \in DOMAIN acc.table
                           THEN [acc.table EXCEPT
                                    ![op.existingId] = UpdatedRow(@, op.payload)]
                           ELSE acc.table   \* the row is gone: no row is updated
         IN  Then(CASE updOutcome[k] = "updateFail" ->
                        [acc EXCEPT !.errors = @ + 1]
                    [] updOutcome[k] = "geoFail" /\ hasGeo ->
                        [acc EXCEPT !.table = updated, !.errors = @ + 1]
                    [] OTHER ->
                        [table |-> IF hasGeo
                                      THEN WithGeometry(updated, op.existingId,
                                                        op.payload.lat, op.payload.lng)
                                      ELSE updated,
                         saved |-> acc.saved + 1, errors |-> acc.errors],
                  LAMBDA a : ApplyUpdates(ops, k + 1, updOutcome, a))

\* One pass of the batch loop of batchSavePersons.  insOutcome is "ok",
\* "insertFail" (personRepository.save throws, nothing is inserted) or
\* "geoFail" (the rows are inserted and the geometry query throws).
SaveBuilt(results, insOutcome, updOutcome, acc) ==
    LET updateOps == SelectSeq(results, LAMBDA r : r.existingId # 0)
        newOnes == SelectSeq(results, LAMBDA r : r.existingId = 0)
        n == Len(newOnes)
        firstId == FreshId(acc.table)
        inserted(newPayloads) == InsertAll(acc.table, newPayloads)
        afterInsert(newPayloads) ==
            IF n = 0 THEN acc
            ELSE CASE insOutcome = "insertFail" ->
                        [acc EXCEPT !.errors = @ + n]
                   [] insOutcome = "geoFail" ->
                        [table |-> inserted(newPayloads), saved |-> acc.saved + n,
                         errors |-> acc.errors + n]
                   [] OTHER ->
                        [table |-> Then(inserted(newPayloads),
                                        LAMBDA t : GeometryOfNew(t, firstId, newPayloads)),
                         saved |-> acc.saved + n, errors |-> acc.errors]
    IN  Then(updateOps, LAMBDA ops :
        Then(newOnes, LAMBDA new :
        Then(afterInsert([k \in DOMAIN new |-> new[k].payload]),
             LAMBDA a : ApplyUpdates(ops, 1, updOutcome, a))))

SaveBatch(batch, existingMap, insOutcome, updOutcome, acc) ==
    Then(SelectSeq([k \in DOMAIN batch |->
                      Then(batch[k], LAMBDA person :
                                        BuildPersonPayload(person, existingMap))],
                   LAMBDA b : b # <<>>),
         LAMBDA kept :
            SaveBuilt([k \in DOMAIN kept |-> kept[k][1]], insOutcome, updOutcome, acc))

\* The batch loop of batchSavePersons from index i on; the outcomes are
\* indexed by the number of the batch.
RECURSIVE SavePersons(_, _, _, _, _, _)
SavePersons(people, i, existingMap, insOutcome, updOutcome, acc) ==
    IF i >= Len(people) THEN acc
    ELSE LET n == (i \div SAVE_BATCH_SIZE) + 1
         IN  Then(SaveBatch(Slice(people, i, i + SAVE_BATCH_SIZE), existingMap,
                            insOutcome[n], updOutcome[n], acc),
                  LAMBDA a : SavePersons(people, i + SAVE_BATCH_SIZE, existingMap,
                                         insOutcome, updOutcome, a))

SaveBatches(n) == (n + SAVE_BATCH_SIZE - 1) \div SAVE_BATCH_SIZE

InsertOutcomes == {"ok", "insertFail", "geoFail"}
UpdateOutcomes == {"ok", "updateFail", "geoFail"}

\* The people of the list that come to an insert with coordinates, to an
\* insert, and to an update with coordinates
InsertsOf(people, existingMap) ==
    {k \in DOMAIN people : people[k].pageid \notin DOMAIN existingMap}

UpdatesOf(people, existingMap) ==
    {k \in DOMAIN people : /\ people[k].pageid \in DOMAIN existingMap
                           /\ ~IsManualEntry(existingMap, people[k].pageid)}

HasCoords(person) == TruthyNum(person.lat) /\ TruthyNum(person.lng)

\* batchSavePersons(people, existingMap), the SUCCESS row of the import log,
\* and the step to the next category.
BatchSave ==
    /\ pc = "save"
    /\ LET people == frame.people
           nb == SaveBatches(Len(people))
           ins == InsertsOf(people, frame.existingMap)
           upd == UpdatesOf(people, frame.existingMap)
           nUpd == Cardinality(upd)
       IN  \E insOutcome \in [1..nb -> InsertOutcomes],
              updOutcome \in [1..nb -> [1..nUpd -> UpdateOutcomes]] :
            LET nFaults == Cardinality({n \in 1..nb : insOutcome[n] # "ok"})
                           + Cardinality({pr \in (1..nb) \X (1..nUpd) :
                                            updOutcome[pr[1]][pr[2]] # "ok"})
                run == SavePersons(people, 0, frame.existingMap, insOutcome, updOutcome,
                          [table |-> db, saved |-> 0, errors |-> 0])
            IN  /\ nFaults <= FaultsLeft
                \* an outcome is chosen only for an operation that takes place
                /\ \A n \in 1..nb :
                    /\ insOutcome[n] = "insertFail" => ins # {}
                    /\ insOutcome[n] = "geoFail" =>
                            \E k \in ins : HasCoords(people[k])
                /\ db' = run.table
                /\ frame' = [frame EXCEPT !.saved = run.saved, !.errors = run.errors,
                                          !.dbBefore = db]
                /\ importLog' = AppendLog(importLog,
                                    LogRow(frame.category, "SUCCESS",
                                           SuccessMessage(people, run.saved, run.errors),
                                           run.saved))
                /\ calls' = [calls EXCEPT !.faults = @ + nFaults]
    /\ catIdx' = catIdx + 1
    /\ pc' = AfterCategory(catIdx)
    /\ UNCHANGED <<geocodeCache, world, forceRefresh>>
    /\ UNCHANGED <<httpVars, detailsVars, erVars, runVars, callVars, editVars>>

\* Variant of PercentileRating: the share is taken of all the rows, the row
\* itself included.
ShareOfAllRating(table, id) ==
    LET n == Cardinality(DOMAIN table)
        below == Cardinality({j \in DOMAIN table : table[j].views < table[id].views})
    IN  IF n <= 1 THEN 0 ELSE (2 * 1000 * below + n) \div (2 * n)

\* Variant of PercentileRating: the row keeps the rating it has.
KeepRating(table, id) == table[id].rating

\* recalculateAllRatings, in hundredths: ROUND(percent_rank() * 10, 2) over
\* the views of all rows; percent_rank is (rank - 1) / (rows - 1), and 0 for
\* a single row.
PercentileRating(table, id) ==
    LET n == Cardinality(DOMAIN table)
        below == Cardinality({j \in DOMAIN table : table[j].views < table[id].views})
    IN  IF n <= 1 THEN 0
        ELSE (2 * 1000 * below + (n - 1)) \div (2 * (n - 1))

RecalculateAllRatings ==
    /\ pc = "recalc"
    /\ db' = [id \in DOMAIN db |-> [db[id] EXCEPT !.rating = PercentileRating(db, id)]]
    /\ pc' = "done"
    /\ calls' = [calls EXCEPT !.recalcs = @ + 1]
    /\ UNCHANGED <<importLog, geocodeCache, world, forceRefresh, catIdx, frame>>
    /\ UNCHANGED <<httpVars, detailsVars, erVars, runVars, callVars, editVars>>

Next ==
    \/ StartSync
    \/ Prewarm
    \/ FetchMembers
    \/ LoadExisting
    \/ EnrichViews
    \/ FilterHumans
    \/ EnrichDetails
    \/ EnrichCoordinates
    \/ BatchSave
    \/ RecalculateAllRatings

Spec == InitPipe /\ [][Next]_vars


-----------------------------------------------------------------------------
(***************************************************************************)
(* Claims about the full sync run (checked under Spec).                    *)
(***************************************************************************)

PagesOf(members) == {members[k].pageid : k \in DOMAIN members}

RowsOfPage(table, p) == {id \in DOMAIN table : table[id].wikiPageId = p}

\* The category in progress has loaded its existing-record map and has not
\* saved yet: db is what batchLoadExisting read.
PastLoad == pc \in {"views", "humans", "details", "geo", "save"}

\* batchSavePersons has just returned for the category of the frame:
\* frame.dbBefore is the table before the save step, db the table after it.
SaveDone ==
    /\ pc \in {"fetch", "recalc"}
    /\ importLog # <<>>
    /\ Last(importLog).status = "SUCCESS"
    /\ Last(importLog).category = frame.category

\* C1: save step on a manual record.  After batchSavePersons, for every
\* person of the list whose page id is in the existing-record map with
\* isManual = true, the stored row is equal, field by field, to the row before
\* the step, and no other row with that page id has been inserted.
C1_ManualUntouched ==
    SaveDone =>
        \A k \in DOMAIN frame.people :
            LET p == frame.people[k].pageid
            IN  (p \in DOMAIN frame.existingMap /\ frame.existingMap[p].isManual) =>
                    LET id == frame.existingMap[p].id
                    IN  /\ id \in DOMAIN db
                        /\ db[id] = frame.dbBefore[id]
                        /\ db[id] = frame.existingMap[p]
                        /\ RowsOfPage(db, p) = RowsOfPage(frame.dbBefore, p)

\* Witness of C1: a save step that wrote other rows, with a person in the
\* list whose row is manual and whose new name and coordinates differ from
\* the stored ones.
C1_Witness ==
    /\ SaveDone
    /\ db # frame.dbBefore
    /\ \E k \in DOMAIN frame.people :
        LET person == frame.people[k]
        IN  /\ person.pageid \in DOMAIN frame.existingMap
            /\ frame.existingMap[person.pageid].isManual
            /\ person.title # frame.existingMap[person.pageid].name
            /\ person.lat # NONUM
            /\ person.lat # frame.existingMap[person.pageid].lat

\* C2: skip-or-process decision.  For the category in progress, a
\* title-filtered member is among the members passed on exactly when
\* forceRefresh is set or no stored row has its page id; the view stage gets
\* exactly the members passed on; and when none is passed on the people list
\* is empty and no enrichment call (views, item ids, SPARQL, text, info box,
\* geocoder) has been made for the category.
C2_SkipOrProcess ==
    /\ PastLoad =>
        /\ \A k \in DOMAIN frame.filteredMembers :
            LET m == frame.filteredMembers[k]
            IN  (\E j \in DOMAIN frame.membersToProcess : frame.membersToProcess[j] = m)
                    <=> (forceRefresh \/ RowsOfPage(db, m.pageid) = {})
        /\ PagesOf(frame.membersToProcess) \subseteq PagesOf(frame.filteredMembers)
        /\ pc # "views" => PagesOf(frame.topMembers) = PagesOf(frame.membersToProcess)
    /\ (pc = "save" \/ SaveDone) /\ frame.membersToProcess = <<>> =>
        /\ frame.people = <<>>
        /\ calls.cat = [NoCalls EXCEPT !.listing = 1]
        /\ frame.geoLog = <<>>
        /\ SaveDone => db = frame.dbBefore

\* Witness of C2: an incremental run that skips a member whose stored row is
\* incomplete (no coordinates, no summary) and passes on a member that is
\* not stored.
C2_Witness ==
    /\ pc = "save" /\ ~forceRefresh
    /\ \E k \in DOMAIN frame.filteredMembers :
        LET p == frame.filteredMembers[k].pageid
        IN  /\ p \in DOMAIN frame.existingMap
            /\ frame.existingMap[p].lat = NONUM
            /\ frame.existingMap[p].summary = NULL
            /\ p \notin PagesOf(frame.people)
    /\ \E k \in DOMAIN frame.people : frame.people[k].pageid \notin DOMAIN frame.existingMap

\* C3 as the specification states it: a member whose stored row has
\* non-null lat and lng and is not manual is never sent to the geocoder by
\* the geocoding stage, and leaves the stage with the stored coordinates.
C3_GeocodingSkip ==
    (pc = "save") =>
        \A k \in DOMAIN frame.detailed :
            LET p == frame.detailed[k].pageid
            IN  (/\ p \in DOMAIN frame.existingMap
                 /\ frame.existingMap[p].lat # NONUM
                 /\ frame.existingMap[p].lng # NONUM
                 /\ ~frame.existingMap[p].isManual) =>
                    /\ \A j \in DOMAIN frame.geoLog : frame.geoLog[j].page # p
                    /\ frame.geocoded[k].lat = frame.existingMap[p].lat
                    /\ frame.geocoded[k].lng = frame.existingMap[p].lng

\* C4: geocode cache within one run.  (a) Right after the pre-warm the keys
\* of the cache are the keys of the stored rows that have coordinates and a
\* birth place, each with the coordinates of such a row.  (b) In the
\* geocoding stage a member whose key was in the cache makes no geocoder
\* call and gets the cached coordinates.  (c) Every geocoder call was made
\* for a key that was not in the cache, and its answer, found or not, is the
\* cache entry of the key from then on.  (d) No two geocoder calls of the run
\* have the same key.
C4_GeocodeCache ==
    /\ (pc = "fetch" /\ catIdx = 1) =>
        LET rows == {id \in DOMAIN db : /\ db[id].lat # NONUM /\ db[id].lng # NONUM
                                         /\ TruthyStr(db[id].birthPlace)}
        IN  /\ DOMAIN geocodeCache = {CacheKey(db[id].birthPlace) : id \in rows}
            /\ \A key \in DOMAIN geocodeCache :
                \E id \in rows : /\ CacheKey(db[id].birthPlace) = key
                                 /\ geocodeCache[key] = Found(db[id].lat[1], db[id].lng[1])
    /\ (pc = "save") =>
        \A k \in DOMAIN frame.detailed :
            LET m == frame.detailed[k]
                key == CacheKey(m.birthPlace)
            IN  (/\ ~SkipsGeocoding(frame.existingMap, m.pageid)
                 /\ TruthyStr(m.birthPlace) /\ m.birthPlace # UNKNOWN_PLACE
                 /\ key \in DOMAIN frame.cacheBefore) =>
                    /\ \A j \in DOMAIN frame.geoLog : frame.geoLog[j].index # k
                    /\ frame.geocoded[k].lat =
                         (IF frame.cacheBefore[key] = NOTFOUND THEN NONUM
                          ELSE Num(frame.cacheBefore[key][1].lat))
                    /\ frame.geocoded[k].lng =
                         (IF frame.cacheBefore[key] = NOTFOUND THEN NONUM
                          ELSE Num(frame.cacheBefore[key][1].lng))
    /\ (pc = "save") =>
        \A j \in DOMAIN frame.geoLog : frame.geoLog[j].key \notin DOMAIN frame.cacheBefore
    /\ (pc \notin {"idle", "prewarm"}) =>
        /\ \A j \in DOMAIN calls.geo :
            /\ calls.geo[j].key \in DOMAIN geocodeCache
            /\ geocodeCache[calls.geo[j].key] = calls.geo[j].answer
        /\ \A i, j \in DOMAIN calls.geo : calls.geo[i].key = calls.geo[j].key => i = j

\* Witness of C4: the cache was pre-warmed with Kyiv from a stored row, a
\* new member born in Kyiv got its coordinates from the cache without any
\* geocoder call for that key, and a lookup that found nothing was cached.
C4_Witness ==
    /\ pc = "recalc"
    /\ \E h \in calls.hits :
        /\ h.new /\ h.key = CacheKey(KYIV)
        /\ \A j \in DOMAIN calls.geo : calls.geo[j].key # h.key
        /\ \E id \in DOMAIN db : /\ db[id].wikiPageId = h.page
                                 /\ db[id].lat = Num(50) /\ db[id].lng = Num(30)
    /\ \E j \in DOMAIN calls.geo :
        /\ calls.geo[j].answer = NOTFOUND
        /\ geocodeCache[calls.geo[j].key] = NOTFOUND


-----------------------------------------------------------------------------
(***************************************************************************)
(* filterHumansOnly on its own, for member lists long enough to need       *)
(* several item-id batches and several SPARQL chunks.                      *)
(***************************************************************************)

\* Bound: the longest member list explored.  With two pages stored, 103
\* members leave 101 to check, 81 of them with an item: three chunks.
MaxMembers == 103

\* The kind of the item of page p: every fifth page has no item, and one
\* page in five has an item that is not a human.
KindOfPage(p) ==
    CASE p % 5 = 0 -> "noitem"
      [] p % 5 = 3 -> "other"
      [] OTHER -> "human"

\* The existing-record maps explored for n members: empty, the first two
\* pages, every page
ExistingChoices(n) == {{}, {p \in 1..n : p <= 2}, 1..n}

\* filterHumansOnly(members, existingMap) is about to be called for members
\* 1..n, already enriched with views.
InitHumans ==
    /\ \E n \in 0..MaxMembers : \E stored \in ExistingChoices(n) :
        /\ world = [p \in 1..n |-> KindOfPage(p)]
        /\ db = [p \in stored |-> StoredRow(p, p, "full")]
        /\ frame = [EmptyFrame EXCEPT
                        !.category = Categories[1],
                        !.topMembers = [p \in 1..n |->
                                          [pageid |-> p, title |-> Title(p),
                                           views |-> PageViews(p)]],
                        !.existingMap = [p \in stored |-> StoredRow(p, p, "full")]]
    /\ importLog = <<>>
    /\ geocodeCache = EmptyMap
    /\ pc = "humans"
    /\ forceRefresh = TRUE
    /\ catIdx = 1
    /\ calls = [cat |-> [NoCalls EXCEPT !.listing = 1], geo |-> <<>>, hits |-> {},
                faults |-> 0, thrown |-> <<>>,
                recalcs |-> 0]
    /\ HttpIdle
    /\ DetailsIdle
    /\ ErIdle
    /\ RunsIdle
    /\ CallsIdle
    /\ NoEdits

NextHumans == FilterHumans

SpecHumans == InitHumans /\ [][NextHumans]_vars

\* filterHumansOnly has returned for the category of the frame
HumansDone == pc \in {"details", "geo", "save"}

\* Whether m is an element of the sequence s
IsIn(m, s) == \E k \in DOMAIN s : s[k] = m

\* C9: humanness validation fails open.  Whenever a SPARQL chunk of
\* filterHumansOnly returned no data or threw, the list handed to detail
\* enrichment holds every member that was pending validation (whether its
\* item was confirmed by an earlier chunk, was never queried, or does not
\* exist) after every member trusted from the existing-record map: every
\* member that went in comes out, once.
C9_FailsOpen ==
    (HumansDone /\ frame.sparqlFailed) =>
        /\ frame.validated =
              SelectSeq(frame.topMembers, LAMBDA m : m.pageid \in DOMAIN frame.existingMap)
              \o frame.toCheck
        /\ \A k \in DOMAIN frame.topMembers : IsIn(frame.topMembers[k], frame.validated)
        /\ Len(frame.validated) = Len(frame.topMembers)

\* Witness of C9: the second of three chunks failed; among the members
\* let through are one trusted from the map, one whose item is not a human,
\* one without an item and one whose item would have been in the third
\* chunk.
C9_Witness ==
    /\ HumansDone /\ frame.sparqlFailed
    /\ Len(frame.sparql) = 2
    /\ NumChunks(Cardinality(DOMAIN frame.wikidataMap)) = 3
    /\ \E m \in Range(frame.validated) : m.pageid \in DOMAIN frame.existingMap
    /\ \E m \in Range(frame.validated) :
        /\ m.pageid \notin DOMAIN frame.existingMap /\ world[m.pageid] = "other"
    /\ \E m \in Range(frame.validated) :
        /\ m.pageid \notin DOMAIN frame.existingMap /\ world[m.pageid] = "noitem"
    /\ \E m \in Range(frame.validated) :
        /\ m.pageid \in DOMAIN frame.wikidataMap
        /\ \A b \in DOMAIN frame.sparql : frame.wikidataMap[m.pageid] \notin Range(frame.sparql[b])

-----------------------------------------------------------------------------
(***************************************************************************)
(* Claims about the category loop of the full sync run.                    *)
(***************************************************************************)

\* The positions of the run inside the category loop
InLoop == pc \in {"fetch", "load", "views", "humans", "details", "geo", "save"}

\* The rows of the import log written for category c
LogRowsOf(c) == {j \in DOMAIN importLog : importLog[j].category = c}

\* Whether the rating of row id (in hundredths) is ten times the percentile
\* rank of its views among the rows of the table, rounded to two decimals:
\* the share of the other rows that have fewer views
HasPercentileRating(table, id) ==
    LET n == Cardinality(DOMAIN table)
        fewer == Cardinality({j \in DOMAIN table : table[j].views < table[id].views})
        r == table[id].rating
    IN  IF n <= 1 THEN r = 0
        ELSE /\ 2 * (n - 1) * r <= 2000 * fewer + (n - 1)
             /\ 2000 * fewer + (n - 1) < 2 * (n - 1) * (r + 1)

\* The safety part of C11
C11_FailureLogged ==
    \* the category that threw has its failed row: the error's message, zero
    \* records
    /\ \A k \in DOMAIN calls.thrown :
        \E j \in DOMAIN importLog :
            importLog[j] = LogRow(calls.thrown[k], "FAILED", LISTING_ERROR, 0)
    /\ \A j \in DOMAIN importLog :
        importLog[j].status = "FAILED" =>
            /\ importLog[j].recordsProcessed = 0
            /\ importLog[j].message = LISTING_ERROR
            /\ \E k \in DOMAIN calls.thrown : calls.thrown[k] = importLog[j].category
    \* the loop goes on with the category after the one that threw
    /\ (calls.thrown # <<>> /\ InLoop) =>
            /\ catIdx <= Len(Categories)
            /\ catIdx = Len(importLog) + 1
            /\ \A k \in DOMAIN calls.thrown : calls.thrown[k] # Categories[catIdx]
    \* at the end of the loop every category has been processed and logged
    /\ (pc \in {"recalc", "done"}) =>
            \A i \in DOMAIN Categories : LogRowsOf(Categories[i]) # {}
    \* and the ratings have been recomputed when the run is over
    /\ (pc = "done") =>
            \A id \in DOMAIN db : HasPercentileRating(db, id)

\* The position of the run, as a number that grows with every stage
Rank ==
    LET stage == CASE pc = "idle" -> 0 [] pc = "prewarm" -> 1
                   [] pc = "fetch" -> 2 [] pc = "load" -> 3 [] pc = "views" -> 4
                   [] pc = "humans" -> 5 [] pc = "details" -> 6 [] pc = "geo" -> 7
                   [] pc = "save" -> 8 [] pc = "recalc" -> 2 [] pc = "done" -> 3
    IN  10 * catIdx + stage

\* C11: category failure isolation.  When processCategory throws for a
\* category, the import log gets a row for it with status FAILED, the message
\* of the error and recordsProcessed = 0; the loop goes on with the next
\* category, and every category is processed and logged by the end of the
\* loop.  Every step of the run takes it forward, to the next stage or the
\* next category, never back and never out of the loop before the last
\* category; the run ends with the ratings recomputed.
C11_CategoryFailureIsolated ==
    /\ []C11_FailureLogged
    /\ [][Rank' > Rank]_vars

\* Witness of C11: the first category threw, the second was processed and
\* saved a record, and the run is over with the ratings recomputed.
C11_Witness ==
    /\ pc = "done"
    /\ calls.thrown = <<Categories[1]>>
    /\ Len(importLog) = 2
    /\ importLog[1].status = "FAILED"
    /\ importLog[2].status = "SUCCESS"
    /\ importLog[2].category = Categories[2]
    /\ importLog[2].recordsProcessed >= 1


\* The state part of C12
C12_OneRowPerCategory ==
    \* the rows are those of the categories gone through, in their order
    /\ Len(importLog) <= Len(Categories)
    /\ \A j \in DOMAIN importLog :
        /\ importLog[j].category = Categories[j]
        /\ importLog[j].status \in {"SUCCESS", "FAILED"}
    /\ \A i \in DOMAIN Categories : Cardinality(LogRowsOf(Categories[i])) <= 1
    /\ InLoop => Len(importLog) = catIdx - 1
    \* at the end of the run each category has its row
    /\ (pc \in {"recalc", "done"}) =>
            \A i \in DOMAIN Categories : Cardinality(LogRowsOf(Categories[i])) = 1

\* C12: the import log is append-only, with one row per category per run.
\* A run writes exactly one row for each discovered category, with status
\* SUCCESS or FAILED, and a step of the run leaves every row that exists as
\* it is: it adds at most one row, after the others.
C12_ImportLogAppendOnly ==
    /\ []C12_OneRowPerCategory
    /\ [][/\ Len(importLog') \in {Len(importLog), Len(importLog) + 1}
          /\ SubSeq(importLog', 1, Len(importLog)) = importLog]_vars

\* Witness of C12: a run is over whose first category was saved and whose
\* second category threw; the log holds the two rows in that order.
C12_Witness ==
    /\ pc = "done"
    /\ Len(importLog) = Len(Categories)
    /\ importLog[1].status = "SUCCESS"
    /\ importLog[1].recordsProcessed >= 1
    /\ importLog[2].status = "FAILED"


\* C13: ordering of the rating recomputation.  The recomputation has not run
\* while the run is in the category loop; it runs when every category has
\* been processed and logged; and a run that is over has run it exactly
\* once, after which every stored row, the rows saved by this run included,
\* has the percentile rating of its views and not the provisional rating the
\* save step wrote.
C13_RecalculationLast ==
    /\ (pc \in {"idle", "prewarm"} \/ InLoop) => calls.recalcs = 0
    /\ (pc = "recalc") =>
            /\ calls.recalcs = 0
            /\ Len(importLog) = Len(Categories)
            /\ \A i \in DOMAIN Categories : LogRowsOf(Categories[i]) # {}
    /\ (pc = "done") =>
            /\ calls.recalcs = 1
            /\ Len(importLog) = Len(Categories)
            /\ \A id \in DOMAIN db : HasPercentileRating(db, id)

\* Witness of C13: the run is over; a row inserted by its last category,
\* whose provisional rating was 2 * log10(views + 1), now has a percentile
\* rating that differs from it.
C13_Witness ==
    /\ pc = "done"
    /\ calls.recalcs = 1
    /\ frame.saved >= 1
    /\ \E id \in DOMAIN db :
        /\ id \notin DOMAIN frame.dbBefore
        /\ db[id].rating # CalculateRating(db[id].views)
        /\ HasPercentileRating(db, id)


-----------------------------------------------------------------------------
(***************************************************************************)
(* recalculateAllRatings on its own, for tables of any view counts.        *)
(***************************************************************************)

\* Bounds: the largest table and the largest view count explored
MaxRows == 4
MaxViews == 5

\* recalculateAllRatings is about to be called on a table of n rows with the
\* view counts v and the ratings r0 (as the save step or an earlier
\* recomputation left them).
InitRatings ==
    /\ \E n \in 0..MaxRows : \E v \in [1..n -> 0..MaxViews] : \E r0 \in {0, 700} :
        db = [id \in 1..n |->
                [StoredRow(id, id, "bare") EXCEPT !.views = v[id], !.rating = r0]]
    /\ importLog = <<>>
    /\ geocodeCache = EmptyMap
    /\ world = [p \in PersonPages |-> "human"]
    /\ pc = "recalc"
    /\ forceRefresh = FALSE
    /\ catIdx = Len(Categories) + 1
    /\ frame = EmptyFrame
    /\ calls = [cat |-> NoCalls, geo |-> <<>>, hits |-> {}, faults |-> 0,
                thrown |-> <<>>, recalcs |-> 0]
    /\ HttpIdle
    /\ DetailsIdle
    /\ ErIdle
    /\ RunsIdle
    /\ CallsIdle
    /\ NoEdits

NextRatings == RecalculateAllRatings

SpecRatings == InitRatings /\ [][NextRatings]_vars

\* The view counts of the rows differ pairwise
DistinctViews(table) ==
    \A i, j \in DOMAIN table : i # j => table[i].views # table[j].views

\* C14: result of the percentile recomputation.  After recalculateAllRatings
\* on two or more rows with pairwise distinct view counts, the row with the
\* fewest views has rating 0 and the row with the most views rating 10 (1000
\* hundredths), every rating lies between 0 and 10, and of two rows the one
\* with more views never has the lower rating.
C14_PercentileResult ==
    (pc = "done" /\ Cardinality(DOMAIN db) >= 2 /\ DistinctViews(db)) =>
        /\ \A id \in DOMAIN db :
            /\ db[id].rating \in 0..1000
            /\ (\A j \in DOMAIN db : db[id].views <= db[j].views) => db[id].rating = 0
            /\ (\A j \in DOMAIN db : db[id].views >= db[j].views) => db[id].rating = 1000
        /\ \A i, j \in DOMAIN db :
            db[i].views > db[j].views => db[i].rating >= db[j].rating

\* Witness of C14: three rows with distinct view counts, not in the order of
\* their ids, have been rated 0, 5 and 10.
C14_Witness ==
    /\ pc = "done"
    /\ Cardinality(DOMAIN db) = 3
    /\ DistinctViews(db)
    /\ db[1].views > db[3].views /\ db[3].views > db[2].views
    /\ db[1].rating = 1000 /\ db[3].rating = 500 /\ db[2].rating = 0


\* The rows of the table that belong to the pages of the members
RowsOfMembers(table, members) ==
    {id \in DOMAIN table : table[id].wikiPageId \in PagesOf(members)}

\* The case of C15 for the category of the frame: an incremental run, three
\* members, one of them stored when the category was loaded, one new whose
\* item is a human, one new without an item; no external call and no
\* database statement of the run has failed.
ThreeMemberScenario ==
    /\ ~forceRefresh
    /\ calls.faults = 0
    /\ Len(frame.rawMembers) = 3
    /\ Len(frame.filteredMembers) = 3
    /\ \E a, b, c \in PagesOf(frame.filteredMembers) :
        /\ a # b /\ a # c /\ b # c
        /\ a \in DOMAIN frame.existingMap
        /\ b \notin DOMAIN frame.existingMap /\ world[b] = "human"
        /\ c \notin DOMAIN frame.existingMap /\ world[c] = "noitem"

\* C15: end-to-end count for one category in an incremental run.  When the
\* category has three members, one stored (skipped), one new and confirmed
\* (inserted), one new without an item (dropped), then after the category
\* has been saved two rows of its members are stored and its import-log row
\* has recordsProcessed = 2.
C15_EndToEndCount ==
    (SaveDone /\ ThreeMemberScenario) =>
        /\ Cardinality(RowsOfMembers(db, frame.filteredMembers)) = 2
        /\ Last(importLog).recordsProcessed = 2


-----------------------------------------------------------------------------
(***************************************************************************)
(* Entity resolution: findDuplicate, and the save step on a table that     *)
(* holds records under the candidate's name.                               *)
(***************************************************************************)

\* The words pg_trgm takes from a text: the runs of letters and digits
RECURSIVE WordsOf(_, _)
WordsOf(s, word) ==
    IF s = <<>> THEN (IF word = <<>> THEN {} ELSE {word})
    ELSE IF IsLetterOrNumber(Head(s)) THEN WordsOf(Tail(s), Append(word, Head(s)))
    ELSE (IF word = <<>> THEN {} ELSE {word}) \cup WordsOf(Tail(s), <<>>)

\* The trigram set pg_trgm compares: every word in lower case, with two
\* blanks before it and one after it
Trigrams(s) ==
    UNION {LET padded == <<" ", " ">> \o w \o <<" ">>
           IN  {SubSeq(padded, i, i + 2) : i \in 1..(Len(w) + 1)} :
           w \in WordsOf(ToLowerCase(s), <<>>)}

\* SET pg_trgm.similarity_threshold = 0.6, in tenths
SIMILARITY_THRESHOLD == 6

\* lower(name) % $1: similarity(a, b) = shared trigrams / all trigrams,
\* compared with the threshold
Similar(a, b) ==
    LET ta == Trigrams(a)
        tb == Trigrams(b)
    IN  /\ ta \cup tb # {}
        /\ 10 * Cardinality(ta \cap tb) >= SIMILARITY_THRESHOLD * Cardinality(ta \cup tb)

\* similarity(a, c) <= similarity(b, c), without fractions
NoMoreSimilar(a, b, c) ==
    LET ta == Trigrams(a)
        tb == Trigrams(b)
        tc == Trigrams(c)
    IN  Cardinality(ta \cap tc) * Cardinality(tb \cup tc)
            <= Cardinality(tb \cap tc) * Cardinality(ta \cup tc)

\* The rows the fuzzy query of findDuplicate can return for a name: WHERE
\* lower(name) % normalized ORDER BY sim DESC LIMIT 1 (any of the rows that
\* share the highest similarity)
FuzzyMatches(table, name) ==
    LET normalized == NormalizeName(name)
        over == {id \in DOMAIN table : Similar(ToLowerCase(table[id].name), normalized)}
    IN  {id \in over : \A other \in over :
            NoMoreSimilar(ToLowerCase(table[other].name),
                          ToLowerCase(table[id].name), normalized)}

\* EntityResolutionService.findDuplicate(name, wikiPageId): the ids of the
\* rows it can return ({} for null; findOne returns any one of the rows
\* that match).  wikiPageId = 0 stands for undefined or null.  The fuzzy
\* query is taken to succeed (a failing one is swallowed and gives null).
FindDuplicate(table, name, wikiPageId) ==
    LET byPageId == {id \in DOMAIN table :
                        wikiPageId # 0 /\ table[id].wikiPageId = wikiPageId}
        byName == {id \in DOMAIN table : table[id].name = name}
    IN  IF byPageId # {} THEN byPageId
        ELSE IF byName # {} THEN byName
        ELSE FuzzyMatches(table, name)

\* Bound: the most rows the table holds when the save step starts
MaxStored == 2

\* The names stored next to the title of page 1: the title itself, the title
\* with a parenthetical suffix, a name one letter longer, another name
StoredNames ==
    {Title(1), Title(1) \o <<" ", "(", "p", "o", "e", "t", ")">>,
     Title(1) \o <<"a">>, Title(3)}

\* A stored record under a name, imported (with the page id of its article;
\* 7 is an article no category lists) or made by hand without a page id (0)
NamedRow(id, shape) ==
    PersonRow(id, shape.page, shape.manual, shape.name, ToSlug(shape.name),
              Num(50), Num(30),
              <<30, 50>>, KYIV, "1800-01-01", 99, 400, "summary-db", "image-db",
              EmptyMap)

\* The person processCategory returns for a person page whose details were
\* all found
Candidate(p) ==
    WikiPerson([pageid |-> p, title |-> Title(p), views |-> PageViews(p),
                birthDate |-> "1814-03-09", birthPlace |-> KYIV,
                summary |-> "summary-wiki", imageUrl |-> "image-wiki",
                occupation |-> <<POET>>, deathPlace |-> UNDEF,
                deathDate |-> UNDEF, lat |-> Num(50), lng |-> Num(30)],
               Categories[2])

\* The save step of the last category, for one or two candidates, on a
\* table of up to MaxStored rows
InitResolve ==
    /\ \E n \in 0..MaxStored :
        \E shapes \in [1..n -> [page : {0, 1, 7}, manual : BOOLEAN, name : StoredNames]] :
            db = [id \in 1..n |-> NamedRow(id, shapes[id])]
    /\ \E m \in 1..2 : \E existingMap \in ExistingMaps(db, 1..m) :
        frame = [EmptyFrame EXCEPT
                    !.category = Categories[2],
                    !.existingMap = existingMap,
                    !.people = [p \in 1..m |-> Candidate(p)]]
    /\ importLog = <<>>
    /\ geocodeCache = EmptyMap
    /\ world = [p \in PersonPages |-> "human"]
    /\ pc = "save"
    /\ forceRefresh = TRUE
    /\ catIdx = Len(Categories)
    /\ calls = [cat |-> [NoCalls EXCEPT !.listing = 1], geo |-> <<>>, hits |-> {},
                faults |-> 0, thrown |-> <<>>, recalcs |-> 0]
    /\ HttpIdle
    /\ DetailsIdle
    /\ ErIdle
    /\ RunsIdle
    /\ CallsIdle
    /\ NoEdits

NextResolve == BatchSave

SpecResolve == InitResolve /\ [][NextResolve]_vars

\* The rows the three strategies give for a candidate, in their order: the
\* rows with its page id; else the rows with its normalized name; else the
\* most similar of the rows over the threshold
MatchesInOrder(table, person) ==
    LET byId == {id \in DOMAIN table : table[id].wikiPageId = person.pageid}
        byName == {id \in DOMAIN table :
                      NormalizeName(table[id].name) = NormalizeName(person.title)}
    IN  IF byId # {} THEN byId
        ELSE IF byName # {} THEN byName
        ELSE FuzzyMatches(table, person.title)

\* The rows the save step inserted for a page id
InsertedFor(p) ==
    {id \in DOMAIN db \ DOMAIN frame.dbBefore : db[id].wikiPageId = p}

\* C16: match order of the new-or-update decision.  After a save step in
\* which every write succeeded, a candidate for which the three strategies
\* (page id, then normalized name, then the most similar name over the
\* threshold) find no stored record has been inserted as a new row; a
\* candidate for which one of them finds a record has not been inserted, and
\* when the records the first successful strategy finds are not manual, one
\* of them carries the candidate's values.
C16_MatchOrder ==
    (SaveDone /\ calls.faults = 0) =>
        \A k \in DOMAIN frame.people :
            LET person == frame.people[k]
                found == MatchesInOrder(frame.dbBefore, person)
            IN  IF found = {} THEN InsertedFor(person.pageid) # {}
                ELSE /\ InsertedFor(person.pageid) = {}
                     /\ (\A id \in found : ~frame.dbBefore[id].isManual) =>
                            \E id \in found :
                                /\ db[id].wikiPageId = person.pageid
                                /\ db[id].name = person.title
                                /\ db[id].views = person.views


-----------------------------------------------------------------------------
(***************************************************************************)
(* The text helpers of EntityResolutionService, each applied to an         *)
(* argument of its own.                                                    *)
(***************************************************************************)

\* Bound: the longest name passed to normalizeName and toSlug
MaxChars == 4

\* The strings of up to n characters over an alphabet
StringsOver(alphabet, n) == UNION {[1..k -> alphabet] : k \in 0..n}

\* The characters of the names: a capital letter, a digit, the brackets,
\* blank and line feed, the modifier letter apostrophe ("~"), a hyphen and
\* a punctuation mark
NameCharacters == {"A", "1", "(", ")", " ", "\n", "~"}
SlugCharacters == {"A", "1", " ", "\n", "-", "!"}

\* Bound: the most pieces a date text is put together from
MaxPieces == 4

\* The pieces of the date texts: two years, a digit, a hyphen, a blank and
\* a letter
DatePieces ==
    {<<"1","8","1","4">>, <<"1","8","6","1">>, <<"9">>, <<"-">>, <<" ">>, <<"a">>}

RECURSIVE Concat(_)
Concat(pieces) ==
    IF pieces = <<>> THEN <<>> ELSE Head(pieces) \o Concat(Tail(pieces))

\* Bound: the longest list of labels passed to enrichOccupations
MaxLabels == 3

\* The labels of the lists: two synonyms of one occupation, one of them
\* also capitalised between blanks, another occupation of the table, a
\* label the table does not hold, plain and capitalised, a blank label, and
\* a label that names a member of Object.prototype
OccupationLabels ==
    {POET, <<" ", "P", "o", "e", "t", " ">>, PYSMENNYK, KOMPOZYTOR,
     PEDAHOH, <<"P", "e", "d", "a", "h", "o", "h", " ">>, <<" ">>, CONSTRUCTOR}

\* The arguments explored for each helper (extractBirthYear also takes null)
ArgumentsOf(fn) ==
    CASE fn = "normalizeName" -> StringsOver(NameCharacters, MaxChars)
      [] fn = "toSlug" -> StringsOver(SlugCharacters, MaxChars)
      [] fn = "extractBirthYear" ->
            {NULLSTR} \cup {Concat(ps) : ps \in StringsOver(DatePieces, MaxPieces)}
      [] fn = "enrichOccupations" -> StringsOver(OccupationLabels, MaxLabels)

\* A caller applies one helper: normalizeName to a name and then to the
\* value it returned, toSlug to a name, extractBirthYear to a date text,
\* enrichOccupations to a list of labels
InitHelpers ==
    /\ erFn \in {"normalizeName", "toSlug", "extractBirthYear", "enrichOccupations"}
    /\ erArg \in ArgumentsOf(erFn)
    /\ erOut = <<>>
    /\ HttpIdle
    /\ DetailsIdle
    /\ PipeIdle
    /\ RunsIdle
    /\ CallsIdle
    /\ NoEdits

NormalizeNameCall ==
    /\ erFn = "normalizeName"
    /\ Len(erOut) < 2
    /\ erOut' = Append(erOut, NormalizeName(IF erOut = <<>> THEN erArg
                                            ELSE erOut[Len(erOut)]))
    /\ UNCHANGED <<erFn, erArg>>
    /\ UNCHANGED <<httpVars, detailsVars, pipeVars, runVars, callVars, editVars>>

ToSlugCall ==
    /\ erFn = "toSlug"
    /\ erOut = <<>>
    /\ erOut' = <<ToSlug(erArg)>>
    /\ UNCHANGED <<erFn, erArg>>
    /\ UNCHANGED <<httpVars, detailsVars, pipeVars, runVars, callVars, editVars>>

ExtractBirthYearCall ==
    /\ erFn = "extractBirthYear"
    /\ erOut = <<>>
    /\ erOut' = <<ExtractBirthYear(erArg)>>
    /\ UNCHANGED <<erFn, erArg>>
    /\ UNCHANGED <<httpVars, detailsVars, pipeVars, runVars, callVars, editVars>>

EnrichOccupationsCall ==
    /\ erFn = "enrichOccupations"
    /\ erOut = <<>>
    /\ erOut' = <<EnrichOccupations(erArg)>>
    /\ UNCHANGED <<erFn, erArg>>
    /\ UNCHANGED <<httpVars, detailsVars, pipeVars, runVars, callVars, editVars>>

NextHelpers ==
    \/ NormalizeNameCall
    \/ ToSlugCall
    \/ ExtractBirthYearCall
    \/ EnrichOccupationsCall

SpecHelpers == InitHelpers /\ [][NextHelpers]_vars

\* C17: normalizeName is idempotent.  When normalizeName has been applied
\* to a string and then to the value it returned, the second value equals
\* the first.
C17_NormalizeNameIdempotent ==
    (erFn = "normalizeName" /\ Len(erOut) = 2) => erOut[2] = erOut[1]

\* C18: shape of a slug.  The value toSlug returns holds only lower-case
\* letters, digits and hyphens, neither starts nor ends with a hyphen, and
\* has no two hyphens side by side.
C18_SlugShape ==
    (erFn = "toSlug" /\ erOut # <<>>) =>
        LET slug == erOut[1]
        IN  /\ \A i \in DOMAIN slug :
                \/ slug[i] \in Digits \cup {"-"}
                \/ \E j \in DOMAIN LowerCase : slug[i] = LowerCase[j]
            /\ slug # <<>> => slug[1] # "-" /\ slug[Len(slug)] # "-"
            /\ \A i \in 1..(Len(slug) - 1) : ~(slug[i] = "-" /\ slug[i + 1] = "-")


\* Four digits stand at position i of s with no letter, digit or underscore
\* next to them on either side
StandaloneYearAt(s, i) ==
    /\ i + 3 <= Len(s)
    /\ \A k \in i..(i + 3) : s[k] \in Digits
    /\ i > 1 => ~IsWordChar(s[i - 1])
    /\ i + 3 < Len(s) => ~IsWordChar(s[i + 4])

\* C19: extractBirthYear.  For null or the empty string the value returned
\* is null.  For a string that starts with four digits and a hyphen it is
\* the number those digits write.  For any other string it is the number
\* written by the first standalone run of exactly four digits (four digits
\* with no letter, digit or underscore on either side), and null when the
\* string has no such run.
C19_ExtractBirthYear ==
    (erFn = "extractBirthYear" /\ erOut # <<>>) =>
        LET s == erArg
            runs == {i \in DOMAIN s : StandaloneYearAt(s, i)}
        IN  IF s = NULLSTR \/ s = <<>> THEN erOut[1] = NONUM
            ELSE IF Len(s) >= 5 /\ s[5] = "-" /\ \A k \in 1..4 : s[k] \in Digits
                THEN erOut[1] = Num(ParseInt(SubSeq(s, 1, 4)))
            ELSE IF runs = {} THEN erOut[1] = NONUM
            ELSE \E i \in runs :
                    /\ \A o \in runs : i <= o
                    /\ erOut[1] = Num(ParseInt(SubSeq(s, i, i + 3)))

\* Witness of C19: the text starts with four digits that are part of a
\* longer run, and the year returned is the one of a later run.
C19_Witness ==
    /\ erFn = "extractBirthYear"
    /\ erOut = <<Num(1861)>>
    /\ Len(erArg) > 5
    /\ \A k \in 1..5 : erArg[k] \in Digits
    /\ SubSeq(erArg, 1, 4) = <<"1","8","1","4">>


\* The value the occupation table and the pass-through rule give a label:
\* its tag when its lower-case, trimmed form is a key of the table, that
\* form otherwise
TagOrLabel(label) ==
    LET lower == Trim(ToLowerCase(label))
    IN  IF lower \in DOMAIN OccupationTable THEN OccupationTable[lower] ELSE lower

\* C20: enrichOccupations.  The list returned holds the value of every
\* label (its tag of the occupation table, else its lower-case, trimmed
\* form) and nothing else, each value once, in the order in which the values
\* first occur among the labels; primaryCategory is the first entry of that
\* list, and null when the list is empty.
C20_EnrichOccupations ==
    (erFn = "enrichOccupations" /\ erOut # <<>>) =>
        LET labels == erArg
            list == erOut[1].occupations
            firstAt(v) == CHOOSE k \in DOMAIN labels :
                            /\ TagOrLabel(labels[k]) = v
                            /\ \A j \in 1..(k - 1) : TagOrLabel(labels[j]) # v
        IN  /\ Range(list) = {TagOrLabel(labels[k]) : k \in DOMAIN labels}
            /\ \A i, j \in DOMAIN list : i < j =>
                    /\ list[i] # list[j]
                    /\ firstAt(list[i]) < firstAt(list[j])
            /\ erOut[1].primaryCategory = IF list = <<>> THEN NULLSTR ELSE list[1]


-----------------------------------------------------------------------------
(***************************************************************************)
(* buildPersonPayload and the save step on one stored record: the merge of *)
(* the metadata map.                                                       *)
(***************************************************************************)

\* The metadata maps the stored record can hold: an occupation list, a death
\* place, a death year (of four digits or of three) and a key the pipeline
\* does not compute, each present or not
StoredMetas ==
    {MapOf(pairs) : pairs \in SUBSET {<<"occupation", <<WRITER>> >>,
                                      <<"deathPlace", "deathplace-db">>,
                                      <<"deathYear", Num(1861)>>,
                                      <<"note", "note-db">>}}
    \cup {MapOf(pairs \cup {<<"deathYear", Num(972)>>}) :
            pairs \in SUBSET {<<"occupation", <<WRITER>> >>, <<"note", "note-db">>}}

\* The stored record of page 1, imported earlier, with a metadata map
MergeRow(meta) ==
    PersonRow(1, 1, FALSE, Title(1), ToSlug(Title(1)), Num(50), Num(30), <<30, 50>>, KYIV,
              "1800-01-01", 99, 400, "summary-db", "image-db", meta)

\* The candidates of page 1 the detail step can hand over: the occupation
\* list (none, empty, one label), the death place (undefined or a text; only
\* the stored-record branch sets one) and the death date (undefined, null,
\* an ISO date, the text of a stored year, the identifier of an unknown
\* value)
MergeCandidates ==
    {[Candidate(1) EXCEPT !.occupation = occ, !.deathPlace = place, !.deathDate = date] :
        occ \in {NOOCC, <<>>, <<KOMPOZYTOR>>},
        place \in {UNDEF, "deathplace-db"},
        date \in {UNDEF, NULL, "1861-03-10", "0972-03-01", "972", "genid/8f3a"}}

InitMerge ==
    /\ \E meta \in StoredMetas :
        /\ db = <<MergeRow(meta)>>
        /\ \E person \in MergeCandidates :
            frame = [EmptyFrame EXCEPT
                        !.category = Categories[2],
                        !.existingMap = MapOf({<<1, MergeRow(meta)>>}),
                        !.people = <<person>>]
    /\ importLog = <<>>
    /\ geocodeCache = EmptyMap
    /\ world = [p \in PersonPages |-> "human"]
    /\ pc = "save"
    /\ forceRefresh = TRUE
    /\ catIdx = Len(Categories)
    /\ calls = [cat |-> [NoCalls EXCEPT !.listing = 1], geo |-> <<>>, hits |-> {},
                faults |-> 0, thrown |-> <<>>, recalcs |-> 0]
    /\ HttpIdle
    /\ DetailsIdle
    /\ ErIdle
    /\ RunsIdle
    /\ CallsIdle
    /\ NoEdits

NextMerge == BatchSave

SpecMerge == InitMerge /\ [][NextMerge]_vars

\* The key has in the new map the value it had in the old one (and is in the
\* new map if it was in the old one)
KeptKey(old, new, k) == k \in DOMAIN old => k \in DOMAIN new /\ new[k] = old[k]

\* C21: metadata merge on update.  After a save step that updated a record
\* that is not manual, every key of the stored map other than occupation,
\* deathPlace and deathYear has its old value; occupation is the candidate's
\* enriched list when that list is not empty, deathPlace the candidate's
\* death place when it has one, deathYear the year of the candidate's death
\* date when it yields one; otherwise each of the three has its old value.
C21_MetadataMerge ==
    (SaveDone /\ calls.faults = 0 /\ Len(frame.people) = 1 /\ DOMAIN frame.dbBefore = {1}
        /\ ~frame.dbBefore[1].isManual /\ frame.people[1].pageid = 1) =>
        LET old == frame.dbBefore[1].meta_data
            new == db[1].meta_data
            person == frame.people[1]
            freshList == IF person.occupation = NOOCC THEN <<>>
                         ELSE [k \in DOMAIN person.occupation |->
                                  TagOrLabel(person.occupation[k])]
            freshYear == IF TruthyText(person.deathDate)
                            THEN ExtractBirthYear(DateChars(person.deathDate))
                            ELSE NONUM
        IN  /\ \A k \in DOMAIN old \ {"occupation", "deathPlace", "deathYear"} :
                    KeptKey(old, new, k)
            /\ IF freshList # <<>>
                  THEN "occupation" \in DOMAIN new /\ new["occupation"] = freshList
                  ELSE KeptKey(old, new, "occupation")
            /\ IF TruthyText(person.deathPlace)
                  THEN "deathPlace" \in DOMAIN new /\ new["deathPlace"] = person.deathPlace
                  ELSE KeptKey(old, new, "deathPlace")
            /\ IF freshYear # NONUM
                  THEN "deathYear" \in DOMAIN new /\ new["deathYear"] = freshYear
                  ELSE KeptKey(old, new, "deathYear")


-----------------------------------------------------------------------------
(***************************************************************************)
(* Claims about the writes of the save step (checked under Spec).          *)
(***************************************************************************)

\* The person of the list has been written by the save step: a row was
\* inserted for it, or its stored row holds the values of its payload
\* (whatever became of the geometry point)
Written(person) ==
    LET built == BuildPersonPayload(person, frame.existingMap)
    IN  /\ built # <<>>
        /\ IF built[1].existingId = 0 THEN InsertedFor(person.pageid) # {}
           ELSE LET id == built[1].existingId
                IN  db[id] = [UpdatedRow(frame.dbBefore[id], built[1].payload)
                                EXCEPT !.birthLocation = db[id].birthLocation]

\* C22: isolation of a write failure.  After a save step of a run in which
\* at most one call failed, at most one record is counted as an error, and
\* at most one of the people that are not skipped as manual is left
\* unwritten.
C22_WriteFailureIsolated ==
    (SaveDone /\ calls.faults <= 1) =>
        /\ frame.errors <= 1
        /\ Cardinality({k \in DOMAIN frame.people :
                            /\ ~IsManualEntry(frame.existingMap, frame.people[k].pageid)
                            /\ ~Written(frame.people[k])}) <= 1


\* The geometry point of the row is the point of its latitude and longitude
\* (none when the row has no coordinates)
PointMatches(row) ==
    IF row.lat # NONUM /\ row.lng # NONUM
        THEN row.birthLocation = <<row.lng[1], row.lat[1]>>
        ELSE row.birthLocation = <<>>

\* C23: a record is written whole or not at all.  After a save step, every
\* stored row is either equal to the row before the step, or holds a
\* geometry point that is the point of the latitude and longitude it holds.
C23_WriteAtomic ==
    SaveDone =>
        \A id \in DOMAIN db :
            \/ id \in DOMAIN frame.dbBefore /\ db[id] = frame.dbBefore[id]
            \/ PointMatches(db[id])


\* C24: the slug of a record is made from its name when the record is first
\* stored and never changes afterwards.  After a save step, every row the
\* step inserted holds the slug of its name, and every row that was stored
\* before the step holds the slug it held before.
C24_SlugStable ==
    SaveDone =>
        /\ \A id \in DOMAIN db \ DOMAIN frame.dbBefore : db[id].slug = ToSlug(db[id].name)
        /\ \A id \in DOMAIN frame.dbBefore : db[id].slug = frame.dbBefore[id].slug


\* Latitude and longitude are both set or both null
Paired(r) == (r.lat = NONUM) <=> (r.lng = NONUM)

\* C25: coordinates come in pairs.  In every state of a run that started
\* from a table whose rows hold both coordinates or neither, every stored
\* row, every geocoded candidate, every person handed to the save step and
\* every payload built from one holds both coordinates or neither.
C25_CoordinatePairs ==
    /\ \A id \in DOMAIN db : Paired(db[id])
    /\ \A k \in DOMAIN frame.geocoded : Paired(frame.geocoded[k])
    /\ \A k \in DOMAIN frame.people :
        /\ Paired(frame.people[k])
        /\ LET built == BuildPersonPayload(frame.people[k], frame.existingMap)
           IN  built # <<>> => Paired(built[1].payload)

\* A save step has inserted a row with coordinates and has written a row
\* without coordinates
C25_Witness ==
    /\ SaveDone
    /\ \E id \in DOMAIN db \ DOMAIN frame.dbBefore : db[id].lat # NONUM /\ db[id].lng # NONUM
    /\ \E id \in DOMAIN db :
        /\ id \in DOMAIN frame.dbBefore => db[id] # frame.dbBefore[id]
        /\ db[id].lat = NONUM /\ db[id].lng = NONUM


\* No two rows of the table hold the same page id
UniquePageIds(table) ==
    \A i, j \in DOMAIN table : table[i].wikiPageId = table[j].wikiPageId => i = j

\* C26: uniqueness of the page id.  In every state of a run (full refresh or
\* incremental, with pages that two categories list) no two stored rows
\* hold the same page id, and every row a save step inserted holds a page
\* id that no row held before the step.
C26_UniquePageId ==
    /\ UniquePageIds(db)
    /\ SaveDone =>
        \A id \in DOMAIN db \ DOMAIN frame.dbBefore :
            \A j \in DOMAIN frame.dbBefore :
                frame.dbBefore[j].wikiPageId # db[id].wikiPageId

\* The save step of the second category has inserted a row and has updated
\* a row of a page that the first category lists as well, after the save
\* step of the first category had written rows
C26_Witness ==
    /\ SaveDone
    /\ frame.category = Categories[2]
    /\ Len(importLog) = 2
    /\ importLog[1].status = "SUCCESS" /\ importLog[1].recordsProcessed >= 1
    /\ DOMAIN db # DOMAIN frame.dbBefore
    /\ \E id \in DOMAIN frame.dbBefore :
        /\ db[id] # frame.dbBefore[id]
        /\ \E k \in DOMAIN CategoryPages(Categories[1]) :
              CategoryPages(Categories[1])[k] = db[id].wikiPageId


-----------------------------------------------------------------------------
(***************************************************************************)
(* The triggers of a full sync (startSync, handleCron), the stop request   *)
(* of the controller, and the invocations of runFullSyncPipeline they      *)
(* start.  Every invocation is an async function of one service object:    *)
(* it runs until its next await, and the invocations take turns there.     *)
(* Each category lists page 1 here; the steps of processCategory are those *)
(* of Spec, taken as one step with every request answered.                 *)
(***************************************************************************)

\* Bound: the most triggers (startSync, handleCron) explored
MaxTriggers == 2

\* A run is active from its trigger to the end of recalculateAllRatings
ActiveRuns == {r \in DOMAIN syncRuns : syncRuns[r].pc # "done"}

\* The locals of an invocation that has just been entered
NewRun(force) ==
    [pc |-> "prewarm", forceRefresh |-> force, catIdx |-> 0,
     people |-> <<>>, existingMap |-> EmptyMap]

InitControl ==
    /\ db \in {<<>>, [id \in 1..1 |-> StoredRow(1, 1, "bare")]}
    /\ importLog = <<>>
    /\ geocodeCache = EmptyMap
    /\ world = [p \in PersonPages |-> "human"]
    /\ pc = "off"
    /\ forceRefresh = FALSE
    /\ catIdx = 0
    /\ frame = EmptyFrame
    /\ calls = [cat |-> NoCalls, geo |-> <<>>, hits |-> {}, faults |-> 0,
                thrown |-> <<>>, recalcs |-> 0]
    /\ HttpIdle
    /\ DetailsIdle
    /\ ErIdle
    /\ RunsIdle
    /\ CallsIdle
    /\ NoEdits

\* startSync(forceRefresh): runFullSyncPipeline is called without await and
\* runs to its first await (geocodeCache.clear(), then the find); no test
\* of a run in progress precedes the call.
TriggerSync ==
    /\ Len(syncRuns) < MaxTriggers
    /\ \E force \in BOOLEAN : syncRuns' = Append(syncRuns, NewRun(force))
    /\ geocodeCache' = EmptyMap
    /\ UNCHANGED <<db, importLog, world, pc, forceRefresh, catIdx, frame, calls>>
    /\ UNCHANGED <<httpVars, detailsVars, erVars, stopRequested, callVars, editVars>>

\* handleCron: await this.runFullSyncPipeline(), with forceRefresh = false
CronSync ==
    /\ Len(syncRuns) < MaxTriggers
    /\ syncRuns' = Append(syncRuns, NewRun(FALSE))
    /\ geocodeCache' = EmptyMap
    /\ UNCHANGED <<db, importLog, world, pc, forceRefresh, catIdx, frame, calls>>
    /\ UNCHANGED <<httpVars, detailsVars, erVars, stopRequested, callVars, editVars>>

\* WikipediaController.stopSync -> wikipediaService.stopSync(): the stop
\* request is recorded
StopSync ==
    /\ ActiveRuns # {}
    /\ ~stopRequested
    /\ stopRequested' = TRUE
    /\ UNCHANGED <<pipeVars, httpVars, detailsVars, erVars, syncRuns, callVars, editVars>>

\* The position of invocation r after the loop body for category idx
NextPosition(idx) == IF idx < Len(Categories) THEN "category" ELSE "recalc"

\* Invocation r: the cache is filled from the stored rows and
\* discoverCategories returns
RunPrewarm(r) ==
    /\ syncRuns[r].pc = "prewarm"
    /\ geocodeCache' = PrewarmFrom(RowsWithCoords(db), geocodeCache)
    /\ syncRuns' = [syncRuns EXCEPT ![r].pc = NextPosition(0), ![r].catIdx = 1]
    /\ UNCHANGED <<db, importLog, world, pc, forceRefresh, catIdx, frame, calls>>
    /\ UNCHANGED <<httpVars, detailsVars, erVars, stopRequested, callVars, editVars>>

\* Invocation r: the loop head `catIdx < categories.length` and
\* processCategory(category, undefined, forceRefresh) for the category in
\* turn: the stored rows of the listed page are loaded, the page is skipped
\* (incremental run, row stored) or comes back as a person with its birth
\* place geocoded; or the category listing throws and the catch block logs
\* the failure.
RunProcessCategory(r) ==
    /\ syncRuns[r].pc = "category"
    /\ LET run == syncRuns[r]
           c == Categories[run.catIdx]
           key == CacheKey(Candidate(1).birthPlace)
       IN  \E ok \in BOOLEAN : \E existingMap \in ExistingMaps(db, {1}) :
            IF ok
              THEN LET skipped == ~run.forceRefresh /\ 1 \in DOMAIN existingMap
                       cached == existingMap # EmptyMap /\ SkipsGeocoding(existingMap, 1)
                   IN  /\ syncRuns' = [syncRuns EXCEPT
                                ![r].pc = "save",
                                ![r].existingMap = existingMap,
                                ![r].people = IF skipped THEN <<>> ELSE <<Candidate(1)>>]
                       /\ geocodeCache' = IF skipped \/ cached \/ CacheHas(geocodeCache, key)
                                            THEN geocodeCache
                                            ELSE CacheSet(geocodeCache, key, Found(50, 30))
                       /\ UNCHANGED importLog
              ELSE /\ importLog' = AppendLog(importLog, LogRow(c, "FAILED", LISTING_ERROR, 0))
                   /\ syncRuns' = [syncRuns EXCEPT ![r].pc = NextPosition(run.catIdx),
                                                   ![r].catIdx = @ + 1]
                   /\ UNCHANGED geocodeCache
    /\ UNCHANGED <<db, world, pc, forceRefresh, catIdx, frame, calls>>
    /\ UNCHANGED <<httpVars, detailsVars, erVars, stopRequested, callVars, editVars>>

\* Invocation r: batchSavePersons(people, existingMap) with every write
\* succeeding, the SUCCESS row of the import log, and catIdx++
RunSave(r) ==
    /\ syncRuns[r].pc = "save"
    /\ LET run == syncRuns[r]
           nb == SaveBatches(Len(run.people))
           nUpd == Cardinality(UpdatesOf(run.people, run.existingMap))
           out == SavePersons(run.people, 0, run.existingMap,
                      [n \in 1..nb |-> "ok"], [n \in 1..nb |-> [j \in 1..nUpd |-> "ok"]],
                      [table |-> db, saved |-> 0, errors |-> 0])
       IN  /\ db' = out.table
           /\ importLog' = AppendLog(importLog,
                              LogRow(Categories[run.catIdx], "SUCCESS",
                                     SuccessMessage(run.people, out.saved, out.errors),
                                     out.saved))
           /\ syncRuns' = [syncRuns EXCEPT ![r].pc = NextPosition(run.catIdx),
                                           ![r].catIdx = @ + 1,
                                           ![r].people = <<>>,
                                           ![r].existingMap = EmptyMap]
    /\ UNCHANGED <<geocodeCache, world, pc, forceRefresh, catIdx, frame, calls>>
    /\ UNCHANGED <<httpVars, detailsVars, erVars, stopRequested, callVars, editVars>>

\* Invocation r: recalculateAllRatings, and the pipeline returns
RunRecalculate(r) ==
    /\ syncRuns[r].pc = "recalc"
    /\ db' = [id \in DOMAIN db |-> [db[id] EXCEPT !.rating = PercentileRating(db, id)]]
    /\ syncRuns' = [syncRuns EXCEPT ![r].pc = "done"]
    /\ UNCHANGED <<importLog, geocodeCache, world, pc, forceRefresh, catIdx, frame, calls>>
    /\ UNCHANGED <<httpVars, detailsVars, erVars, stopRequested, callVars, editVars>>

RunStep ==
    \E r \in DOMAIN syncRuns :
        \/ RunPrewarm(r)
        \/ RunProcessCategory(r)
        \/ RunSave(r)
        \/ RunRecalculate(r)

NextControl ==
    \/ TriggerSync
    \/ CronSync
    \/ StopSync
    \/ RunStep

SpecControl == InitControl /\ [][NextControl]_vars

\* Invocation r enters processCategory for a category in this step
BeginsCategory(r) ==
    /\ syncRuns[r].pc = "category"
    /\ syncRuns'[r] # syncRuns[r]

\* C27: stop control.  Once a stop has been requested, no invocation of the
\* pipeline starts a further category: it halts at the category boundary
\* (a save step that has begun still runs to its end).
C27_StopAtCategoryBoundary ==
    [][stopRequested => \A r \in DOMAIN syncRuns : ~BeginsCategory(r)]_vars

\* C28: single active run.  In every state at most one invocation of the
\* pipeline is between its trigger and its end.
C28_SingleActiveRun == Cardinality(ActiveRuns) <= 1


-----------------------------------------------------------------------------
(***************************************************************************)
(* discoverCategories: the allcategories listing is read prefix by prefix, *)
(* page by page; the names that pass the keyword tests are collected in a  *)
(* Set, and the supplementary categories are added at the end.             *)
(***************************************************************************)

UKRAINSKI == <<"U","k","r","a","i","n","s","k","i"," ">>
DIIACHI == <<"D","i","i","a","c","h","i"," ">>

\* CATEGORY_PREFIXES
CATEGORY_PREFIXES == <<UKRAINSKI, DIIACHI>>

\* PEOPLE_KEYWORDS (three of the list), EXCLUDE_KEYWORDS (two of the list),
\* UKRAINIAN_MARKERS
PEOPLE_KEYWORDS == {POET, <<"d","i","i","a","c","h">>, <<"h","e","t","m","a","n">>}
EXCLUDE_KEYWORDS == {<<"f","i","l","m">>, <<"m","u","z","e">>}
UKRAINIAN_MARKERS == {<<"u","k","r","a","i","n","s","k">>, <<"u","k","r","a","i","n","y">>}

\* `Категорія:${name}`
CategoryTitle(name) == <<"K",":">> \o name

\* EXTRA_CATEGORIES (two of the list; none starts with a prefix)
EXTRA_CATEGORIES ==
    << CategoryTitle(<<"H","e","t","m","a","n","y"," ","U","k","r","a","i","n","y">>),
       CategoryTitle(<<"H","e","r","o","i"," ","U","k","r","a","i","n","y">>) >>

\* The category names the wiki can list under each prefix: with a people
\* keyword; with a people keyword and an exclusion keyword; without a
\* people keyword; and, under the second prefix, with and without a
\* Ukrainian marker
ListedNames(prefixIdx) ==
    IF prefixIdx = 1
      THEN {UKRAINSKI \o <<"P","o","e","t","y">>,
            UKRAINSKI \o <<"f","i","l","m","y"," ","p","o","e","t","i","v">>,
            UKRAINSKI \o <<"r","i","c","h","k","y">>}
      ELSE {DIIACHI \o <<"U","k","r","a","i","n","y">>,
            DIIACHI \o <<"k","u","l","t","u","r","y">>}

\* Bounds: the most pages of the listing under one prefix, and the most
\* names on a page
MaxPages == 2
MaxPageNames == 1

\* The listings of a prefix: one to MaxPages pages of up to MaxPageNames
\* names (a name can be listed again on a later page)
Listings(prefixIdx) ==
    LET pages == UNION {[1..n -> ListedNames(prefixIdx)] : n \in 0..MaxPageNames}
    IN  UNION {[1..n -> pages] : n \in 1..MaxPages}

\* this.PEOPLE_KEYWORDS.some((kw) => lower.includes(kw))
IsPeopleRelated(lower) == \E kw \in PEOPLE_KEYWORDS : Includes(lower, kw)

\* this.EXCLUDE_KEYWORDS.some((kw) => lower.includes(kw))
IsExcluded(lower) == \E kw \in EXCLUDE_KEYWORDS : Includes(lower, kw)

\* Mutant of IsUkrainian: every prefix is taken as Ukrainian.
IsUkrainianAlways(prefix, lower) == TRUE

\* prefix === 'Українські ' || this.UKRAINIAN_MARKERS.some((m) => lower.includes(m))
IsUkrainian(prefix, lower) ==
    prefix = UKRAINSKI \/ \E m \in UKRAINIAN_MARKERS : Includes(lower, m)

\* discovered.add(value) on a Set kept in insertion order
SetAdd(set, value) ==
    IF \E k \in DOMAIN set : set[k] = value THEN set ELSE Append(set, value)

\* for (const cat of categories) {...}: the names of one page, from name k
RECURSIVE AddSurvivors(_, _, _, _)
AddSurvivors(discovered, prefix, page, k) ==
    IF k > Len(page) THEN discovered
    ELSE LET name == page[k]
             lower == ToLowerCase(name)
         IN  AddSurvivors(
                IF IsPeopleRelated(lower) /\ ~IsExcluded(lower) /\ IsUkrainian(prefix, lower)
                    THEN SetAdd(discovered, CategoryTitle(name)) ELSE discovered,
                prefix, page, k + 1)

\* for (const cat of this.EXTRA_CATEGORIES) discovered.add(cat), from cat k
RECURSIVE AddExtras(_, _)
AddExtras(discovered, k) ==
    IF k > Len(EXTRA_CATEGORIES) THEN discovered
    ELSE AddExtras(SetAdd(discovered, EXTRA_CATEGORIES[k]), k + 1)

\* discoverCategories is called: the listing the wiki holds is fixed, the
\* Set is empty, the first prefix is in turn and accontinue is undefined
\* (page 1 is the page a request without accontinue returns)
InitDiscover ==
    /\ \E l1 \in Listings(1), l2 \in Listings(2) :
        discovery = [pc |-> "request", listing |-> <<l1, l2>>, prefixIdx |-> 1,
                     page |-> 1, discovered |-> <<>>, requests |-> <<>>,
                     result |-> <<>>]
    /\ searchCall = <<>>
    /\ NoEdits
    /\ HttpIdle
    /\ DetailsIdle
    /\ PipeIdle
    /\ ErIdle
    /\ RunsIdle

\* One pass of the do-while loop: fetchFromWiki answers and the names of
\* the page are tested (then the loop goes on with accontinue, or the next
\* prefix starts), or fetchFromWiki throws and the catch block breaks out of
\* the loop of the prefix.  After the last prefix the supplementary
\* categories are added and Array.from(discovered) is returned.
DiscoverRequest ==
    /\ discovery # <<>> /\ discovery.pc = "request"
    /\ \E ok \in BOOLEAN :
        LET d == discovery
            pages == d.listing[d.prefixIdx]
            discovered == IF ok THEN AddSurvivors(d.discovered, CATEGORY_PREFIXES[d.prefixIdx],
                                                  pages[d.page], 1)
                          ELSE d.discovered
            more == ok /\ d.page < Len(pages)
            last == ~more /\ d.prefixIdx = Len(CATEGORY_PREFIXES)
            all == IF last THEN AddExtras(discovered, 1) ELSE discovered
        IN  discovery' = [d EXCEPT
                !.requests = Append(@, [prefixIdx |-> d.prefixIdx, page |-> d.page, ok |-> ok]),
                !.discovered = all,
                !.page = IF more THEN d.page + 1 ELSE 1,
                !.prefixIdx = IF more THEN d.prefixIdx ELSE d.prefixIdx + 1,
                !.pc = IF last THEN "done" ELSE "request",
                !.result = IF last THEN all ELSE <<>>]
    /\ UNCHANGED <<searchCall, editVars>>
    /\ UNCHANGED <<httpVars, detailsVars, pipeVars, erVars, runVars>>

NextDiscover == DiscoverRequest

SpecDiscover == InitDiscover /\ [][NextDiscover]_vars

\* The requests made for prefix number i, in order
RequestsOf(i) == SelectSeq(discovery.requests, LAMBDA q : q.prefixIdx = i)

\* C29: the result of category discovery.  When discoverCategories returns,
\* the result holds no category twice; it holds every supplementary
\* category, and besides them exactly the received names that contain a
\* people keyword, no exclusion keyword and, under the second prefix, a
\* Ukrainian marker; the requests of the first prefix all come before those
\* of the second; and each prefix was asked for its pages in order, up to
\* its last page or up to the first request that failed.
C29_DiscoveryResult ==
    (discovery # <<>> /\ discovery.pc = "done") =>
        LET result == discovery.result
            Survives(i, name) ==
                /\ \E kw \in PEOPLE_KEYWORDS : Includes(ToLowerCase(name), kw)
                /\ \A kw \in EXCLUDE_KEYWORDS : ~Includes(ToLowerCase(name), kw)
                /\ i = 1 \/ \E m \in UKRAINIAN_MARKERS : Includes(ToLowerCase(name), m)
            received(i) ==
                {discovery.listing[i][RequestsOf(i)[j].page] :
                    j \in {j \in DOMAIN RequestsOf(i) : RequestsOf(i)[j].ok}}
            names(i) == UNION {{pg[k] : k \in DOMAIN pg} : pg \in received(i)}
        IN  /\ \A j, k \in DOMAIN result : result[j] = result[k] => j = k
            /\ {result[k] : k \in DOMAIN result}
                 = {EXTRA_CATEGORIES[k] : k \in DOMAIN EXTRA_CATEGORIES}
                   \cup {CategoryTitle(name) : name \in {n \in names(1) : Survives(1, n)}}
                   \cup {CategoryTitle(name) : name \in {n \in names(2) : Survives(2, n)}}
            /\ discovery.requests = RequestsOf(1) \o RequestsOf(2)
            /\ \A i \in DOMAIN CATEGORY_PREFIXES :
                LET q == RequestsOf(i)
                IN  /\ Len(q) >= 1
                    /\ \A j \in DOMAIN q : q[j].page = j
                    /\ \A j \in 1..(Len(q) - 1) : q[j].ok
                    /\ q[Len(q)].ok => Len(q) = Len(discovery.listing[i])

\* Discovery has returned after a failed request on the second page of the
\* first prefix, with a name of the first page of that prefix and a name of
\* the second prefix in the result, and with a name of the second prefix
\* left out for want of a marker
C29_Witness ==
    /\ discovery # <<>> /\ discovery.pc = "done"
    /\ \E j \in DOMAIN discovery.requests :
        /\ discovery.requests[j] = [prefixIdx |-> 1, page |-> 2, ok |-> FALSE]
    /\ \E k \in DOMAIN discovery.result :
        discovery.result[k] = CategoryTitle(UKRAINSKI \o <<"P","o","e","t","y">>)
    /\ \E k \in DOMAIN discovery.result :
        discovery.result[k] = CategoryTitle(DIIACHI \o <<"U","k","r","a","i","n","y">>)
    /\ \E p \in DOMAIN discovery.listing[2] :
        /\ \E q \in DOMAIN discovery.requests :
              discovery.requests[q] = [prefixIdx |-> 2, page |-> p, ok |-> TRUE]
        /\ discovery.listing[2][p] = <<DIIACHI \o <<"k","u","l","t","u","r","y">>>>


-----------------------------------------------------------------------------
(***************************************************************************)
(* SearchService.search(query, type, limit): the fuzzy query, the          *)
(* full-text query and the combination of their results.  A query returns  *)
(* rows of the person table, each row once, and at most LIMIT $2 of them;  *)
(* which rows match the text is left open.                                 *)
(***************************************************************************)

\* Bounds: the most rows that match a query, and the largest limit
MaxMatches == 4
MaxLimit == 3

\* results.map((row) => ({person, similarity, levenshtein})) and
\* results.map((row) => ({person, rank})): the entries a query can return
\* for a limit, by the id of the person and the query they come from
QueryResults(source, limit) ==
    {s \in UNION {[1..n -> [id : 1..MaxMatches, source : {source}]] : n \in 0..limit} :
        \A j, k \in DOMAIN s : s[j].id = s[k].id => j = k}

\* Mutant of CombineResults: the full-text results are not filtered.
ConcatResults(fuzzyResults, fullTextResults) == fuzzyResults \o fullTextResults

\* [...fuzzyResults, ...fullTextResults.filter((r) => !fuzzyIds.has(r.person.id))]
CombineResults(fuzzyResults, fullTextResults) ==
    LET fuzzyIds == {fuzzyResults[k].id : k \in DOMAIN fuzzyResults}
    IN  fuzzyResults \o SelectSeq(fullTextResults, LAMBDA r : r.id \notin fuzzyIds)

InitSearch ==
    /\ \E type \in {"fuzzy", "fulltext", "combined"}, limit \in 0..MaxLimit :
        searchCall = [pc |-> "start", type |-> type, limit |-> limit,
                      fuzzyResults |-> <<>>, fullTextResults |-> <<>>, result |-> <<>>]
    /\ discovery = <<>>
    /\ NoEdits
    /\ HttpIdle
    /\ DetailsIdle
    /\ PipeIdle
    /\ ErIdle
    /\ RunsIdle

\* search up to its first await and the statement after it: the fuzzy or
\* the full-text query alone, or the fuzzy query of the combined search,
\* whose results are returned when there are `limit` of them
SearchFirstQuery ==
    /\ searchCall # <<>> /\ searchCall.pc = "start"
    /\ LET c == searchCall
       IN  IF c.type # "combined"
             THEN \E results \in QueryResults(c.type, c.limit) :
                    searchCall' = [c EXCEPT !.pc = "done", !.result = results]
             ELSE \E fuzzyResults \in QueryResults("fuzzy", c.limit) :
                    searchCall' =
                        IF Len(fuzzyResults) >= c.limit
                          THEN [c EXCEPT !.pc = "done", !.fuzzyResults = fuzzyResults,
                                         !.result = fuzzyResults]
                          ELSE [c EXCEPT !.pc = "fulltext", !.fuzzyResults = fuzzyResults]
    /\ UNCHANGED <<discovery, editVars>>
    /\ UNCHANGED <<httpVars, detailsVars, pipeVars, erVars, runVars>>

\* The full-text query of the combined search, and combined.slice(0, limit)
SearchFullText ==
    /\ searchCall # <<>> /\ searchCall.pc = "fulltext"
    /\ \E fullTextResults \in QueryResults("fulltext", searchCall.limit) :
        searchCall' = [searchCall EXCEPT
            !.pc = "done",
            !.fullTextResults = fullTextResults,
            !.result = Slice(CombineResults(searchCall.fuzzyResults, fullTextResults),
                             0, searchCall.limit)]
    /\ UNCHANGED <<discovery, editVars>>
    /\ UNCHANGED <<httpVars, detailsVars, pipeVars, erVars, runVars>>

NextSearch ==
    \/ SearchFirstQuery
    \/ SearchFullText

SpecSearch == InitSearch /\ [][NextSearch]_vars

\* C30: combined search.  When search(query, 'combined', limit) has
\* returned: with at least `limit` fuzzy results the result is the fuzzy
\* results; otherwise it is the fuzzy results followed by the full-text
\* results whose id is not among the fuzzy ones, in their order, cut to
\* `limit` entries.  In both cases the result has at most `limit` entries,
\* holds no id twice and starts with the fuzzy results in their order.
C30_CombinedSearch ==
    (searchCall # <<>> /\ searchCall.pc = "done" /\ searchCall.type = "combined") =>
        LET result == searchCall.result
            fuzzy == searchCall.fuzzyResults
            fresh == SelectSeq(searchCall.fullTextResults,
                        LAMBDA r : \A k \in DOMAIN fuzzy : fuzzy[k].id # r.id)
            kept == Len(result) - Len(fuzzy)
        IN  /\ Len(result) <= searchCall.limit
            /\ \A j, k \in DOMAIN result : result[j].id = result[k].id => j = k
            /\ Len(result) >= Len(fuzzy) /\ SubSeq(result, 1, Len(fuzzy)) = fuzzy
            /\ IF Len(fuzzy) >= searchCall.limit THEN result = fuzzy
               ELSE /\ kept <= Len(fresh)
                    /\ SubSeq(result, Len(fuzzy) + 1, Len(result)) = SubSeq(fresh, 1, kept)
                    /\ kept = Len(fresh) \/ Len(result) = searchCall.limit

\* A combined search has returned fuzzy results followed by full-text
\* results, after leaving out a full-text result that was a fuzzy result
\* too and cutting the list to the limit
C30_Witness ==
    /\ searchCall # <<>> /\ searchCall.pc = "done" /\ searchCall.type = "combined"
    /\ searchCall.fuzzyResults # <<>>
    /\ Len(searchCall.result) > Len(searchCall.fuzzyResults)
    /\ \E j \in DOMAIN searchCall.fuzzyResults, k \in DOMAIN searchCall.fullTextResults :
        searchCall.fuzzyResults[j].id = searchCall.fullTextResults[k].id
    /\ \E k \in DOMAIN searchCall.fullTextResults :
        \A j \in DOMAIN searchCall.result :
            searchCall.result[j].id # searchCall.fullTextResults[k].id


-----------------------------------------------------------------------------
(***************************************************************************)
(* The birth place of the payload (checked under SpecPlace: the save step  *)
(* for one candidate whose birth place ranges over short texts).           *)
(***************************************************************************)

\* The characters of the birth places: two digits, a letter, blank, the
\* brackets and a comma
PlaceCharacters == {"1", "8", "K", " ", "(", ")", ","}

\* The candidates of page 1: birth place null, or a text of up to MaxChars
\* characters
PlaceCandidates ==
    {[Candidate(1) EXCEPT !.birthPlace = place] :
        place \in {NULLSTR} \cup StringsOver(PlaceCharacters, MaxChars)}

\* The save step for one candidate, new or stored
InitPlace ==
    /\ \E stored \in BOOLEAN :
        /\ db = IF stored THEN <<MergeRow(EmptyMap)>> ELSE <<>>
        /\ \E person \in PlaceCandidates :
            frame = [EmptyFrame EXCEPT
                        !.category = Categories[2],
                        !.existingMap = IF stored THEN MapOf({<<1, MergeRow(EmptyMap)>>})
                                        ELSE EmptyMap,
                        !.people = <<person>>]
    /\ importLog = <<>>
    /\ geocodeCache = EmptyMap
    /\ world = [p \in PersonPages |-> "human"]
    /\ pc = "save"
    /\ forceRefresh = TRUE
    /\ catIdx = Len(Categories)
    /\ calls = [cat |-> [NoCalls EXCEPT !.listing = 1], geo |-> <<>>, hits |-> {},
                faults |-> 0, thrown |-> <<>>, recalcs |-> 0]
    /\ HttpIdle
    /\ DetailsIdle
    /\ ErIdle
    /\ RunsIdle
    /\ CallsIdle
    /\ NoEdits

NextPlace == BatchSave

SpecPlace == InitPlace /\ [][NextPlace]_vars

\* The row of page 1 after the save step
RowOfPage(p) == db[CHOOSE id \in DOMAIN db : db[id].wikiPageId = p]

\* C31: numeric birth place.  After a save step without a failed write, the
\* candidate has been written and no error is counted; its stored birth
\* place is null when the candidate has none, null when the normalized
\* birth place consists of digits only, and the normalized birth place
\* when that is any other non-empty text.
C31_NumericBirthPlace ==
    (SaveDone /\ calls.faults = 0 /\ Len(frame.people) = 1) =>
        LET place == frame.people[1].birthPlace
            normalized == NormalizeBirthPlace(place)
            digitsOnly == \A k \in DOMAIN normalized :
                            normalized[k] \in {"0","1","2","3","4","5","6","7","8","9"}
        IN  /\ frame.errors = 0 /\ frame.saved = 1
            /\ \E id \in DOMAIN db : db[id].wikiPageId = 1
            /\ place \in {NULLSTR, <<>>} => RowOfPage(1).birthPlace = NULLSTR
            /\ (place \notin {NULLSTR, <<>>} /\ normalized # <<>>) =>
                    RowOfPage(1).birthPlace = IF digitsOnly THEN NULLSTR ELSE normalized

\* A candidate whose birth place is digits and a bracketed part has been
\* inserted with a null birth place
C31_Witness ==
    /\ SaveDone /\ calls.faults = 0 /\ Len(frame.people) = 1
    /\ frame.people[1].birthPlace = <<"1", "8", "(", ")">>
    /\ frame.dbBefore = <<>>
    /\ frame.saved = 1
    /\ RowOfPage(1).birthPlace = NULLSTR


(***************************************************************************)
(* ProposedEditsService.approve (search.service.ts) beside a running sync. *)
(* A proposed edit names a person and the new value of some of its fields; *)
(* approving it writes the values, flags the person as manual and marks    *)
(* the edit approved.  The request is served while the pipeline of         *)
(* WikipediaService is between two of its steps.                           *)
(***************************************************************************)

\* The changes of the edits looked at: a text field, the rating, the
\* coordinates.
EditChanges ==
    {MapOf({<<"summary", "summary-edit">>}),
     MapOf({<<"rating", 900>>}),
     MapOf({<<"lat", Num(48)>>, <<"lng", Num(25)>>})}

\* A row of the proposed-edit table; reviewedAt is the position the sync
\* run was in when the edit was reviewed.
ProposedEdit(personId, changes) ==
    [personId |-> personId, changes |-> changes, status |-> "pending",
     reviewedAt |-> NULL]

\* person[field] = value.new for every change, then person.isManual = true
ApprovedPerson(row, changes) ==
    [[f \in DOMAIN row |-> IF f \in DOMAIN changes THEN changes[f] ELSE row[f]]
        EXCEPT !.isManual = TRUE]

\* Variant of ApprovedPerson: the values are written, the flag is not set.
ApprovedUnflagged(row, changes) ==
    [f \in DOMAIN row |-> IF f \in DOMAIN changes THEN changes[f] ELSE row[f]]

\* the geometry follows the coordinates when both are set: if (lat && lng)
ApprovedGeometry(row) ==
    IF row.lat # NONUM /\ row.lng # NONUM /\ row.lat # Num(0) /\ row.lng # Num(0)
    THEN [row EXCEPT !.birthLocation = <<row.lng[1], row.lat[1]>>]
    ELSE row

Approve ==
    /\ \E e \in DOMAIN proposedEdits :
        LET edit == proposedEdits[e]
            found == {id \in DOMAIN db : db[id].id = edit.personId}
        IN  /\ db' = [id \in DOMAIN db |->
                        IF id \in found
                        THEN ApprovedGeometry(ApprovedPerson(db[id], edit.changes))
                        ELSE db[id]]
            /\ proposedEdits' = [proposedEdits EXCEPT
                                    ![e].status = "approved",
                                    ![e].reviewedAt = pc]
    /\ UNCHANGED <<importLog, geocodeCache, world, pc, forceRefresh, catIdx, frame, calls>>
    /\ UNCHANGED <<httpVars, detailsVars, erVars, runVars, callVars, clearResult>>

\* One person of the first category is stored, enriched or not, and one
\* edit of it is pending.
InitApprove ==
    /\ \E profile \in {"full", "bare"} : db = <<StoredRow(1, 1, profile)>>
    /\ \E changes \in EditChanges : proposedEdits = <<ProposedEdit(1, changes)>>
    /\ importLog = <<>>
    /\ geocodeCache = EmptyMap
    /\ world = [p \in PersonPages |-> "human"]
    /\ pc = "idle"
    /\ forceRefresh = FALSE
    /\ catIdx = 0
    /\ frame = EmptyFrame
    /\ calls = [cat |-> NoCalls, geo |-> <<>>, hits |-> {}, faults |-> 0,
                thrown |-> <<>>, recalcs |-> 0]
    /\ HttpIdle
    /\ DetailsIdle
    /\ ErIdle
    /\ RunsIdle
    /\ CallsIdle
    /\ clearResult = <<>>

NextApprove ==
    \/ Next
    \/ Approve

SpecApprove == InitApprove /\ [][NextApprove]_vars

\* C32: a record that is flagged manual when the pipeline writes the people
\* of a category, whenever the flag was set before that write, also after
\* the map of the existing records was loaded, keeps every field and its
\* geometry in that write.
C32_ManualFlagInterleaved ==
    [][pc = "save" /\ pc' # "save" =>
        \A id \in DOMAIN db : db[id].isManual => db'[id] = db[id]]_vars

\* A record approved after the existing records were loaded was overwritten
\* by the write of its category.
C32_Counterexample ==
    /\ SaveDone
    /\ \E id \in DOMAIN frame.dbBefore :
        /\ frame.dbBefore[id].isManual
        /\ ~IsManualEntry(frame.existingMap, frame.dbBefore[id].wikiPageId)
        /\ db[id] # frame.dbBefore[id]
        /\ proposedEdits[1].status = "approved"


\* C33: across a whole sync run, the writes of the categories and the
\* recomputation of the ratings included, every record that is manual keeps
\* every field, the rating included: no step of the run changes a manual
\* row.
C33_ManualAcrossRun ==
    [][\A id \in DOMAIN db :
            db[id].isManual => id \in DOMAIN db' /\ db'[id] = db[id]]_vars

\* The end of a run in which the rating of a manual row was recomputed.
C33_RatingRewritten ==
    /\ pc = "done"
    /\ \E id \in DOMAIN db :
        /\ db[id].isManual
        /\ db[id].rating # StoredRow(id, db[id].wikiPageId, "manual").rating
        /\ [db[id] EXCEPT !.rating = 700] = StoredRow(id, db[id].wikiPageId, "manual")


\* The runs that have pre-warmed the cache and have not ended
WarmedRuns == {r \in ActiveRuns : syncRuns[r].pc # "prewarm"}

\* C34: from the moment a run has pre-warmed the geocode cache until that
\* run ends, no step removes or replaces an entry of the cache, also when
\* another run is triggered meanwhile: the cache only grows.
C34_CacheOnlyGrows ==
    [][WarmedRuns # {} =>
        \A key \in DOMAIN geocodeCache :
            key \in DOMAIN geocodeCache' /\ geocodeCache'[key] = geocodeCache[key]]_vars

\* A run in progress whose cache, filled by its geocoding, was emptied by
\* the entry of a later run.
C34_ClearedUnderRun ==
    /\ \E r \in WarmedRuns : \E s \in DOMAIN syncRuns :
        /\ s > r
        /\ syncRuns[s].pc = "prewarm"
        /\ syncRuns[r].people # <<>>
    /\ geocodeCache = EmptyMap


\* C35: a member pending validation that filterHumansOnly dropped for want
\* of a knowledge-graph id is a page for which the source answered and
\* reported no id; a member whose id request failed is not dropped so.
C35_TransientIsNotAbsent ==
    HumansDone =>
        \A k \in DOMAIN frame.toCheck :
            LET m == frame.toCheck[k]
            IN  (m.pageid \notin DOMAIN frame.wikidataMap /\ ~IsIn(m, frame.validated))
                    => WikibaseItem(world, m.pageid) = 0

\* A human page whose id request failed is missing from the validated list
\* although no SPARQL chunk failed.
C35_DroppedAfterFailure ==
    /\ HumansDone
    /\ ~frame.sparqlFailed
    /\ calls.faults = 1
    /\ \E k \in DOMAIN frame.toCheck :
        LET m == frame.toCheck[k]
        IN  /\ IsHuman(world, WikibaseItem(world, m.pageid))
            /\ m.pageid \notin DOMAIN frame.wikidataMap
            /\ ~IsIn(m, frame.validated)


(***************************************************************************)
(* processCategory under a limit, as syncSingleCategory calls it: the      *)
(* members to process are new pages (forceRefresh is false), listed from   *)
(* the least viewed to the most viewed.                                    *)
(***************************************************************************)

MaxCategoryLimit == 2
MaxListed == 4

InitLimit ==
    /\ \E n \in 1..MaxListed : \E limit \in 1..MaxCategoryLimit :
        /\ world \in [1..n -> {"human", "other"}]
        /\ frame = [EmptyFrame EXCEPT
                        !.category = Categories[1],
                        !.limit = limit,
                        !.membersToProcess =
                            [k \in 1..n |->
                                [pageid |-> n + 1 - k,
                                 title |-> IF n + 1 - k \in PersonPages
                                             THEN Title(n + 1 - k) ELSE Title(0)]]]
    /\ db = <<>>
    /\ importLog = <<>>
    /\ geocodeCache = EmptyMap
    /\ pc = "views"
    /\ forceRefresh = FALSE
    /\ catIdx = 1
    /\ calls = [cat |-> [NoCalls EXCEPT !.listing = 1], geo |-> <<>>, hits |-> {},
                faults |-> 0, thrown |-> <<>>, recalcs |-> 0]
    /\ HttpIdle
    /\ DetailsIdle
    /\ ErIdle
    /\ RunsIdle
    /\ CallsIdle
    /\ NoEdits

NextLimit ==
    \/ EnrichViews
    \/ FilterHumans
    \/ EnrichDetails
    \/ EnrichCoordinates

SpecLimit == InitLimit /\ [][NextLimit]_vars

\* The members of the head of 3 * limit candidates that are humans
HeadHumans ==
    LET head == ViewsSubset(frame.membersToProcess, frame.limit)
    IN  {k \in DOMAIN head : IsHuman(world, WikibaseItem(world, head[k].pageid))}

\* C36: processCategory under a limit L returns at most L people, and L
\* people whenever at least L candidates of the head of 3 * L are humans.
C36_LimitAfterFilter ==
    (pc = "save" /\ frame.limit # 0) =>
        /\ Len(frame.people) <= frame.limit
        /\ Cardinality(HeadHumans) >= frame.limit => Len(frame.people) = frame.limit

\* With every request answered, the most viewed candidate of the head was
\* not a human and nobody was returned, although a human was in the head.
C36_CutBeforeFilter ==
    /\ pc = "save" /\ frame.limit = 1
    /\ calls.faults = 0
    /\ HeadHumans # {}
    /\ frame.people = <<>>
    /\ Len(frame.topMembers) = 1


\* enrichWithDetails has returned for the category of the frame
DetailsDone == pc \in {"geo", "save"}

\* The member of the output of enrichWithDetails for page p
DetailedOf(p) ==
    frame.detailed[CHOOSE j \in DOMAIN frame.detailed : frame.detailed[j].pageid = p]

\* What the structured query gave for page p: a date and a place that are
\* set, or null.
StructuredBirth(p) ==
    LET known == /\ p \in DOMAIN frame.detailsMap
                 /\ frame.detailsMap[p] \in DOMAIN frame.wikidataDetails
        entry == frame.wikidataDetails[frame.detailsMap[p]]
    IN  [birthDate |-> IF known /\ TruthyText(entry.birthDate)
                          THEN entry.birthDate ELSE NULL,
         birthPlace |-> IF known /\ TruthyStr(entry.birthPlace)
                           THEN entry.birthPlace ELSE NULLSTR]

\* The stored row of a member makes it fully cached: a latitude, not manual,
\* metadata that is not empty, a summary and an image.
StoredInFull(row) ==
    /\ TruthyNum(row.lat)
    /\ ~row.isManual
    /\ row.meta_data # EmptyMap
    /\ TruthyText(row.summary)
    /\ TruthyText(row.imageUrl)

MaxClears == 2

\* Variant of ImportedIds: the DELETE has no condition.
AllIds(table) == DOMAIN table

\* .where('isManual = :isManual', {isManual: false}): the rows deleted
ImportedIds(table) == {id \in DOMAIN table : ~table[id].isManual}

\* clearImportedPersons; the edits proposed for a deleted person go with it
\* (onDelete: 'CASCADE').
ClearImportedPersons ==
    /\ Len(clearResult) < MaxClears
    /\ LET removed == ImportedIds(db)
       IN  /\ db' = [id \in DOMAIN db \ removed |-> db[id]]
           /\ proposedEdits' = SelectSeq(proposedEdits,
                                  LAMBDA e : e.personId \notin {db[id].id : id \in removed})
           /\ clearResult' = Append(clearResult, [deleted |-> Cardinality(removed)])
    /\ UNCHANGED <<importLog, geocodeCache, world, pc, forceRefresh, catIdx, frame, calls>>
    /\ UNCHANGED <<httpVars, detailsVars, erVars, runVars, callVars>>

\* A store with the curated row of page 2 or without it, page 1 enriched or
\* absent, page 3 bare or absent.
InitClear ==
    /\ \E st \in InitialStores :
        /\ st[1] \in {"full", "absent"}
        /\ st[2] \in {"manual", "absent"}
        /\ st[3] \in {"bare", "absent"}
        /\ db = StoreOf(st)
    /\ importLog = <<>>
    /\ geocodeCache = EmptyMap
    /\ world = [p \in PersonPages |-> "human"]
    /\ pc = "idle"
    /\ forceRefresh = FALSE
    /\ catIdx = 0
    /\ frame = EmptyFrame
    /\ calls = [cat |-> NoCalls, geo |-> <<>>, hits |-> {}, faults |-> 0,
                thrown |-> <<>>, recalcs |-> 0]
    /\ HttpIdle
    /\ DetailsIdle
    /\ ErIdle
    /\ RunsIdle
    /\ CallsIdle
    /\ NoEdits

NextClear ==
    \/ Next
    \/ ClearImportedPersons

SpecClear == InitClear /\ [][NextClear]_vars

\* C38: a call of clearImportedPersons leaves no row that is not manual,
\* leaves every manual row stored with every field as it was, and returns
\* the number of rows it removed; no other step of the pipeline removes a
\* row.
C38_ClearImported ==
    [][IF Len(clearResult') > Len(clearResult)
         THEN /\ \A id \in DOMAIN db' : db'[id].isManual
              /\ \A id \in DOMAIN db :
                    db[id].isManual => id \in DOMAIN db' /\ db'[id] = db[id]
              /\ clearResult'[Len(clearResult')].deleted =
                    Cardinality(DOMAIN db \ DOMAIN db')
         ELSE \A id \in DOMAIN db : id \in DOMAIN db']_vars

\* Witness of C38: a second call, after the run had written rows again,
\* removed a row and left the curated row where it was.
C38_Witness ==
    /\ Len(clearResult) = 2
    /\ clearResult[2].deleted >= 1
    /\ importLog # <<>>
    /\ \E id \in DOMAIN db : db[id] = StoredRow(id, 2, "manual")


\* The rows of the person an edit names
PersonsOf(edit) == {id \in DOMAIN db : db[id].id = edit.personId}

\* C39: the step of approve leaves the person with the new values of the
\* edit and flagged manual, and the edit approved; and once an edit was
\* approved before the sync run started, no step of the run changes a field
\* the edit set.
C39_ApprovedProtected ==
    [][IF proposedEdits' # proposedEdits
         THEN \E e \in DOMAIN proposedEdits :
                /\ proposedEdits'[e].status = "approved"
                /\ \A id \in PersonsOf(proposedEdits[e]) :
                    /\ db'[id].isManual
                    /\ \A f \in DOMAIN proposedEdits[e].changes :
                            db'[id][f] = proposedEdits[e].changes[f]
         ELSE \A e \in DOMAIN proposedEdits :
                (proposedEdits[e].status = "approved" /\ proposedEdits[e].reviewedAt = "idle")
                    => \A id \in PersonsOf(proposedEdits[e]) :
                        /\ id \in DOMAIN db'
                        /\ \A f \in DOMAIN proposedEdits[e].changes :
                                db'[id][f] = db[id][f]]_vars

\* The end of a run that started after the approval of a rating and left
\* another rating in the row.
C39_RatingLost ==
    /\ pc = "done"
    /\ \E e \in DOMAIN proposedEdits :
        /\ proposedEdits[e].status = "approved"
        /\ proposedEdits[e].reviewedAt = "idle"
        /\ "rating" \in DOMAIN proposedEdits[e].changes
        /\ \E id \in PersonsOf(proposedEdits[e]) :
            db[id].rating # proposedEdits[e].changes["rating"]


\* The candidates of the saved list left out because their stored record is
\* manual
SkippedManual ==
    {k \in DOMAIN frame.people : IsManualEntry(frame.existingMap, frame.people[k].pageid)}

\* The rows the save step inserted or changed
WrittenRows ==
    {id \in DOMAIN db : id \notin DOMAIN frame.dbBefore \/ db[id] # frame.dbBefore[id]}

\* C40: the counters batchSavePersons returns for a list of n candidates
\* add up with the candidates skipped as manual to n, and no more rows were
\* written than `saved` says, also when a geometry update failed after its
\* insert or update.
C40_SaveCounters ==
    SaveDone =>
        /\ frame.saved + frame.errors + Cardinality(SkippedManual) = Len(frame.people)
        /\ Cardinality(WrittenRows) <= frame.saved

\* An inserted candidate was counted as saved and as an error.
C40_CountedTwice ==
    /\ SaveDone
    /\ Len(frame.people) = 1
    /\ frame.saved = 1 /\ frame.errors = 1
    /\ Cardinality(WrittenRows) = 1

=============================================================================
